---- MODULE Spec2Model ----
(***************************************************************************)
(* Model of the anki-voice server (anki-voice-server/app): the language    *)
(* hint resolver with its deck-config cache, the deterministic judge and   *)
(* the verdict-to-ease mapper, the HTTP handlers with their collaborator   *)
(* calls, and the markup text extractor; of the deck language setup tool  *)
(* (anki-deck-update) with the tags and media files it changes; and of the *)
(* bridge add-on (anki-voice-bridge): its HTTP server's life cycle and its *)
(* handler threads with the tasks they run on the main thread.             *)
(*                                                                         *)
(* Python str values are TLA+ strings; TLC applies Len, SubSeq and \o to   *)
(* them, so startswith, slicing, regex substitution and the substring test *)
(* are computed character by character.                                    *)
(***************************************************************************)
EXTENDS Integers, Sequences, FiniteSets, TLC

\* ------------------------------------------------------------------ bounds
MaxTags == 2          \* longest note tag list the collaborator returns
MaxTranscript == 3    \* longest transcript, in tokens of TranscriptTokens
MaxConcepts == 3      \* largest concept table handed to the judge
MaxNodes == 3         \* most elements in a markup document
MaxDeckName == 3      \* longest deck name, in pieces of DeckNamePieces

\* --------------------------------------------------------- Python values
None == "<None>"                       \* Python None in an Optional[str]
Truthy(s) == s # None /\ s # ""        \* truth value of an Optional[str]

CharAt(s, i) == SubSeq(s, i, i)
StartsWith(s, p) == Len(s) >= Len(p) /\ SubSeq(s, 1, Len(p)) = p

Upper == "ABCDEFGHIJKLMNOPQRSTUVWXYZ"
Lower == "abcdefghijklmnopqrstuvwxyz"
Digits == "0123456789"
\* the whitespace characters of the modelled alphabet; "~" stands for
\* U+00A0 (no-break space), which Python's str.strip and \s both accept
Whitespace == " ~"

RECURSIVE IndexIn(_, _, _)
IndexIn(c, s, i) ==
    IF i > Len(s) THEN 0
    ELSE IF CharAt(s, i) = c THEN i ELSE IndexIn(c, s, i + 1)
InStr(c, s) == IndexIn(c, s, 1) # 0

\* ------------------------------------------------------- main.py: names
RECURSIVE LStrip(_)
LStrip(s) == IF Len(s) > 0 /\ InStr(CharAt(s, 1), Whitespace)
             THEN LStrip(SubSeq(s, 2, Len(s))) ELSE s
RECURSIVE RStrip(_)
RStrip(s) == IF Len(s) > 0 /\ InStr(CharAt(s, Len(s)), Whitespace)
             THEN RStrip(SubSeq(s, 1, Len(s) - 1)) ELSE s
Strip(s) == RStrip(LStrip(s))

FilenameChar(c) == InStr(c, Upper) \/ InStr(c, Lower) \/ InStr(c, Digits)
                   \/ InStr(c, "._-")

\* re.sub(r"[^A-Za-z0-9._-]+", "_", s): every maximal run of characters
\* outside the class becomes one underscore
RECURSIVE SubRuns(_, _, _)
SubRuns(s, i, inRun) ==
    IF i > Len(s) THEN ""
    ELSE IF FilenameChar(CharAt(s, i))
         THEN CharAt(s, i) \o SubRuns(s, i + 1, FALSE)
         ELSE IF inRun THEN SubRuns(s, i + 1, TRUE)
              ELSE "_" \o SubRuns(s, i + 1, TRUE)

\* variant: the name is not trimmed first
sanitize_deck_name_for_filename_NoStrip(deck_name) == SubRuns(deck_name, 1, FALSE)

\* lines 34-36
sanitize_deck_name_for_filename(deck_name) == SubRuns(Strip(deck_name), 1, FALSE)

ConfigFilename(deck_name) ==
    "_ankiVoice.deck." \o sanitize_deck_name_for_filename(deck_name) \o ".json"

\* ------------------------------------------------- the collaborator's world
DeckNames == {"A b", "C"}
Filenames == {ConfigFilename(d) : d \in DeckNames}

\* A JSON value as json.loads delivers it.  t is its type, keys the keys of
\* an object, len the length of an array.
JsonNull == [t |-> "null", keys |-> {}, frontLang |-> None, backLang |-> None, len |-> 0]
JsonObject(keys, f, b) ==
    [t |-> "object", keys |-> keys, frontLang |-> f, backLang |-> b, len |-> 0]
JsonArray(n) == [t |-> "array", keys |-> {}, frontLang |-> None, backLang |-> None, len |-> n]

ObjFull == JsonObject({"frontLang", "backLang"}, "es-ES", "de-DE")
ObjFrontOnly == JsonObject({"frontLang"}, "es-ES", None)

\* The content of a media file: absent, text that is not JSON, or JSON text.
NoBlob == [present |-> FALSE, parses |-> FALSE, json |-> JsonNull]
BadText == [present |-> TRUE, parses |-> FALSE, json |-> JsonNull]
JsonText(v) == [present |-> TRUE, parses |-> TRUE, json |-> v]

Blobs == {NoBlob, BadText, JsonText(ObjFull), JsonText(ObjFrontOnly),
          JsonText(JsonArray(1)), JsonText(JsonNull)}
ConcBlobs == {NoBlob, JsonText(ObjFull), JsonText(ObjFrontOnly)}

TagUniverse == {"av:front=fr-FR", "av:front=", "av:back=it-IT"}

\* the lists of at most n distinct elements of S, in every order (Anki keeps
\* a note's tags free of duplicates)
RECURSIVE SeqsUpTo(_, _)
SeqsUpTo(S, n) ==
    IF n = 0 THEN {<< >>}
    ELSE LET shorter == SeqsUpTo(S, n - 1)
         IN shorter \cup {Append(s, x) : s \in {q \in shorter : Len(q) = n - 1},
                                         x \in S}
Distinct(q) == \A i, j \in 1..Len(q) : i # j => q[i] # q[j]
TagLists == {q \in SeqsUpTo(TagUniverse, MaxTags) : Distinct(q)}

\* What Anki holds about the card a request asks for: deckName and note are
\* None when the card record lacks them.
Cards ==
    {c \in [deckName : DeckNames \cup {None}, note : {None, "n1"}, tags : TagLists] :
        c.note = None => c.tags = << >>}
ConcCards == {c \in Cards : c.deckName # None /\ c.note = None /\ c.tags = << >>}
NoCard == [deckName |-> None, note |-> None, tags |-> << >>]

\* How one AnkiConnect call can end: the transport raises (connect error,
\* timeout, HTTP status), the reply carries an error, the reply's result is
\* empty, or the reply carries the data asked for.
Outcomes == {"raise", "error", "empty", "data"}

\* ------------------------------------------------ ankiconnect.py helpers
NoneInfo == [some |-> FALSE, deckName |-> None, note |-> None]
CardInfo(card) == [some |-> TRUE, deckName |-> card.deckName, note |-> card.note]

\* variant: the reply's failure is not looked at
get_card_info_Unchecked(outcome, card) == CardInfo(card)

\* get_card_info: the first card of the reply, None on any failure
get_card_info(outcome, card) ==
    IF outcome = "data" THEN CardInfo(card) ELSE NoneInfo

NoneNote == [some |-> FALSE, hasTags |-> FALSE, tags |-> << >>]
NoteInfo(hasTags, tags) == [some |-> TRUE, hasTags |-> hasTags, tags |-> tags]

\* get_note_info: the first note of the reply, None on any failure
get_note_info(outcome, note) ==
    IF outcome = "data" THEN note ELSE NoneNote

\* the note records the collaborator can return for a card: the note with
\* its tags, or (for an untagged note) a record without the "tags" key
NoteReplies(card) ==
    {NoteInfo(TRUE, card.tags)}
        \cup (IF card.tags = << >> THEN {NoteInfo(FALSE, << >>)} ELSE {})

\* retrieve_media_file: the decoded text of the file, None when the call
\* fails or the result is empty
retrieve_media_file(outcome, blob) ==
    IF outcome = "data" /\ blob.present THEN blob ELSE NoBlob

\* ------------------------------------------------------ main.py: resolver
RECURSIVE ExtractFrom(_, _, _)
ExtractFrom(tags, prefix, i) ==
    IF i > Len(tags) THEN None
    ELSE IF StartsWith(tags[i], prefix \o "=")
         THEN SubSeq(tags[i], Len(prefix) + 2, Len(tags[i]))
         ELSE ExtractFrom(tags, prefix, i + 1)

extract_lang_from_tags(tags, prefix) == ExtractFrom(tags, prefix, 1)

\* truth value of a parsed config: a dict or list is true when non-empty
JsonTruthy(v) ==
    CASE v.t = "object" -> v.keys # {}
      [] v.t = "array" -> v.len > 0
      [] OTHER -> FALSE

\* dict.get(key): None for a missing key
dict_get(v, key) == IF key \in v.keys THEN v[key] ELSE None

Hints(front, back, raised) ==
    [front_language |-> front, back_language |-> back, raised |-> raised]

\* get_language_hints, lines 99-108: fill the sides still unset from the
\* deck config; .get on a value that is not a dict raises AttributeError
FillFromConfig(front, back, deck_config) ==
    IF ~JsonTruthy(deck_config) THEN Hints(front, back, FALSE)
    ELSE IF deck_config.t # "object" THEN Hints(front, back, TRUE)
    ELSE Hints(IF ~Truthy(front) THEN dict_get(deck_config, "frontLang") ELSE front,
               IF ~Truthy(back) THEN dict_get(deck_config, "backLang") ELSE back,
               FALSE)

\* current, lines 207-208, for a side whose study region carries no
\* language attribute: the hint, or en-US
DefaultLang == "en-US"
OrDefault(hint) == IF Truthy(hint) THEN hint ELSE DefaultLang

\* ------------------------------------------------------------------ state
Reqs == {"r1", "r2"}
SeqReqs == {"r1"}

VARIABLES
    req,      \* per request: position in get_language_hints and its locals
    cache,    \* _deck_lang_cache: deck name -> parsed config
    media,    \* Anki's media folder: file name -> content
    asked,    \* history: deck names whose config the collaborator was asked for
    judge,    \* the last call of the judge, the mapper or /grade, with its result
    http,     \* per HTTP request: the handler's position, input, calls and response
    env,      \* the server's environment: USE_GPT5 and OPENAI_API_KEY
    call,     \* one call of a text function of normalize.py or main.py
    tool,     \* the deck language setup tool: its run and the notes it acts on
    server,   \* the bridge add-on's HTTP server: _srv, _srv_thread and the ports
    bridge    \* the bridge add-on's handler threads and main-thread tasks

vars == <<req, cache, media, asked, judge, http, env, call, tool, server, bridge>>

IdleReq ==
    [pc |-> "idle", card |-> NoCard, calls |-> {}, card_outcome |-> None,
     media_outcome |-> None,
     card_info |-> NoneInfo,
     note_info |-> NoneNote, note_tags |-> << >>,
     front_lang |-> None, back_lang |-> None, deck_config |-> JsonNull, raised |-> FALSE]

RInit ==
    /\ req = [r \in Reqs |-> IdleReq]
    /\ cache = << >>
    /\ media = [f \in Filenames |-> NoBlob]
    /\ asked = {}

\* variant: the cache is never consulted
CacheHit_Never(deck_name) == FALSE

\* line 42
CacheHit(deck_name) == deck_name \in DOMAIN cache

\* variant: the store rebinds the map to the one new entry
CacheStore_Rebind(deck_name, config) == [d \in {deck_name} |-> config]

\* line 54
CacheStore(deck_name, config) ==
    [d \in DOMAIN cache \cup {deck_name} |-> IF d = deck_name THEN config ELSE cache[d]]

Return(r, base, hints) ==
    req' = [req EXCEPT ![r] = [base EXCEPT !.pc = "done",
                                           !.front_lang = hints.front_language,
                                           !.back_lang = hints.back_language,
                                           !.raised = hints.raised]]

\* get_language_hints from line 92 up to the next suspension: extract the
\* overrides, and when a side is unset consult the cache or ask for the blob
AfterTags(r, base, note_tags) ==
    LET front == extract_lang_from_tags(note_tags, "av:front")
        back == extract_lang_from_tags(note_tags, "av:back")
        deck_name == base.card_info.deckName
        b == [base EXCEPT !.note_tags = note_tags, !.front_lang = front, !.back_lang = back]
    IN IF Truthy(front) /\ Truthy(back)
       THEN /\ Return(r, b, Hints(front, back, FALSE))
            /\ UNCHANGED <<cache, media, asked, judge, http, env, call, tool, server, bridge>>
       ELSE IF CacheHit(deck_name)
            THEN /\ Return(r, [b EXCEPT !.deck_config = cache[deck_name]],
                           FillFromConfig(front, back, cache[deck_name]))
                 /\ UNCHANGED <<cache, media, asked, judge, http, env, call, tool, server, bridge>>
            ELSE /\ req' = [req EXCEPT ![r] =
                               [b EXCEPT !.pc = "retrieveMediaFile",
                                         !.calls = @ \cup {"retrieveMediaFile"}]]
                 /\ asked' = asked \cup {deck_name}
                 /\ UNCHANGED <<cache, media, judge, http, env, call, tool, server, bridge>>

\* current, line 205: the handler calls get_language_hints, which asks the
\* collaborator for the card
Start(r, cards) ==
    /\ req[r].pc = "idle"
    /\ \E card \in cards :
          req' = [req EXCEPT ![r] = [IdleReq EXCEPT !.pc = "cardsInfo", !.card = card,
                                                     !.calls = {"cardsInfo"}]]
    /\ UNCHANGED <<cache, media, asked, judge, http, env, call, tool, server, bridge>>

\* lines 76-91: the cardsInfo reply arrives
CardInfoReturn(r) ==
    /\ req[r].pc = "cardsInfo"
    /\ \E outcome \in Outcomes :
          LET card_info == get_card_info(outcome, req[r].card)
              base == [req[r] EXCEPT !.card_outcome = outcome, !.card_info = card_info]
          IN IF ~card_info.some \/ ~Truthy(card_info.deckName)
             THEN /\ Return(r, base, Hints(None, None, FALSE))
                  /\ UNCHANGED <<cache, media, asked, judge, http, env, call, tool, server, bridge>>
             ELSE IF Truthy(card_info.note)
                  THEN /\ req' = [req EXCEPT ![r] =
                                     [base EXCEPT !.pc = "notesInfo",
                                                  !.calls = @ \cup {"notesInfo"}]]
                       /\ UNCHANGED <<cache, media, asked, judge, http, env, call, tool, server, bridge>>
                  ELSE AfterTags(r, base, << >>)

\* lines 88-98: the notesInfo reply arrives
NoteInfoReturn(r) ==
    /\ req[r].pc = "notesInfo"
    /\ \E outcome \in Outcomes, note \in NoteReplies(req[r].card) :
          LET note_info == get_note_info(outcome, note)
              note_tags == IF note_info.some /\ note_info.hasTags
                           THEN note_info.tags ELSE << >>
          IN AfterTags(r, [req[r] EXCEPT !.note_info = note_info], note_tags)

\* get_deck_language_config lines 50-59 and get_language_hints lines 99-108:
\* the retrieveMediaFile reply arrives
MediaReturn(r) ==
    /\ req[r].pc = "retrieveMediaFile"
    /\ \E outcome \in Outcomes :
          LET deck_name == req[r].card_info.deckName
              content == retrieve_media_file(outcome, media[ConfigFilename(deck_name)])
              stored == content.present /\ content.parses
              deck_config == IF stored THEN content.json ELSE JsonNull
          IN /\ cache' = IF stored THEN CacheStore(deck_name, deck_config) ELSE cache
             /\ Return(r, [req[r] EXCEPT !.media_outcome = outcome,
                                         !.deck_config = deck_config],
                       FillFromConfig(req[r].front_lang, req[r].back_lang, deck_config))
    /\ UNCHANGED <<media, asked, judge, http, env, call, tool, server, bridge>>

\* the handler's response has been sent
Finish(r) ==
    /\ req[r].pc = "done"
    /\ req' = [req EXCEPT ![r] = IdleReq]
    /\ UNCHANGED <<cache, media, asked, judge, http, env, call, tool, server, bridge>>

\* the deck's config blob changes outside the server (setup tool, sync)
ExternalWrite(blobs) ==
    /\ \E f \in Filenames, b \in blobs :
          /\ b # media[f]
          /\ media' = [media EXCEPT ![f] = b]
    /\ UNCHANGED <<req, cache, asked, judge, http, env, call, tool, server, bridge>>

\* ------------------------------------------------- normalize.py: the text
\* html.unescape over the modelled alphabet: the character references that
\* can be written with it, each with and without its semicolon.  The
\* no-break space that &nbsp; denotes is written "~".
EntityNames == {"amp;", "amp", "lt;", "lt", "nbsp;", "nbsp"}
EntityChar(name) ==
    CASE name \in {"amp;", "amp"} -> "&"
      [] name \in {"lt;", "lt"} -> "<"
      [] name \in {"nbsp;", "nbsp"} -> "~"

\* the end of the reference that starts after the "&" at position i - 1:
\* up to 32 characters outside "\t\n\f <&#;", then an optional ";"
RECURSIVE NameEnd(_, _, _)
NameEnd(s, i, n) ==
    IF i <= Len(s) /\ n < 32 /\ ~InStr(CharAt(s, i), " <&#;")
    THEN NameEnd(s, i + 1, n + 1)
    ELSE IF i <= Len(s) /\ CharAt(s, i) = ";" THEN i ELSE i - 1

\* the longest proper prefix of the name, two characters at least, that is a
\* reference the parser accepts without its semicolon
RECURSIVE LongestPrefix(_, _)
LongestPrefix(name, x) ==
    IF x < 2 THEN 0
    ELSE IF SubSeq(name, 1, x) \in EntityNames THEN x ELSE LongestPrefix(name, x - 1)

ReplaceCharref(name) ==
    IF name \in EntityNames THEN EntityChar(name)
    ELSE LET x == LongestPrefix(name, Len(name) - 1)
         IN IF x > 0
            THEN EntityChar(SubSeq(name, 1, x)) \o SubSeq(name, x + 1, Len(name))
            ELSE "&" \o name

RECURSIVE UnescapeFrom(_, _)
UnescapeFrom(s, i) ==
    IF i > Len(s) THEN ""
    ELSE IF CharAt(s, i) = "&"
         THEN LET e == NameEnd(s, i + 1, 0)
              IN IF e = i \/ (e = i + 1 /\ CharAt(s, e) = ";")
                 THEN "&" \o UnescapeFrom(s, i + 1)
                 ELSE ReplaceCharref(SubSeq(s, i + 1, e)) \o UnescapeFrom(s, e + 1)
         ELSE CharAt(s, i) \o UnescapeFrom(s, i + 1)

html_unescape(s) == UnescapeFrom(s, 1)

LowerChar(c) ==
    LET k == IndexIn(c, Upper, 1) IN IF k = 0 THEN c ELSE CharAt(Lower, k)

RECURSIVE LowerFrom(_, _)
LowerFrom(s, i) ==
    IF i > Len(s) THEN "" ELSE LowerChar(CharAt(s, i)) \o LowerFrom(s, i + 1)

str_lower(s) == LowerFrom(s, 1)

\* re.sub(r"[^a-z0-9\s/-]", " ", s)
KeepChar(c) ==
    IF InStr(c, Lower) \/ InStr(c, Digits) \/ InStr(c, Whitespace) \/ InStr(c, "/-")
    THEN c ELSE " "

RECURSIVE KeepFrom(_, _)
KeepFrom(s, i) ==
    IF i > Len(s) THEN "" ELSE KeepChar(CharAt(s, i)) \o KeepFrom(s, i + 1)

\* re.sub(r"\s+", " ", s)
RECURSIVE CollapseFrom(_, _, _)
CollapseFrom(s, i, inRun) ==
    IF i > Len(s) THEN ""
    ELSE IF InStr(CharAt(s, i), Whitespace)
         THEN IF inRun THEN CollapseFrom(s, i + 1, TRUE)
              ELSE " " \o CollapseFrom(s, i + 1, TRUE)
         ELSE CharAt(s, i) \o CollapseFrom(s, i + 1, FALSE)

\* variant: the trim comes first, before the substitutions
normalize_text_StripFirst(s) ==
    CollapseFrom(KeepFrom(str_lower(html_unescape(Strip(s))), 1), 1, FALSE)

normalize_text(s) ==
    Strip(CollapseFrom(KeepFrom(str_lower(html_unescape(s)), 1), 1, FALSE))

\* ---------------------------------------------------------------- judge.py
\* a in txt
RECURSIVE FindFrom(_, _, _)
FindFrom(a, txt, i) ==
    IF i + Len(a) - 1 > Len(txt) THEN FALSE
    ELSE IF SubSeq(txt, i, i + Len(a) - 1) = a THEN TRUE ELSE FindFrom(a, txt, i + 1)
Contains(txt, a) == FindFrom(a, txt, 1)

\* the inner loop of list_set_match: any alias of the set found in txt
RECURSIVE AnyAlias(_, _)
AnyAlias(aliases, txt) ==
    IF aliases = {} THEN FALSE
    ELSE LET a == CHOOSE x \in aliases : TRUE
         IN IF Contains(txt, a) THEN TRUE ELSE AnyAlias(aliases \ {a}, txt)

\* variant: the canonical name is left out of the alias set
AliasSet_NoCanon(canonical, canon) == canonical[canon]

AliasSet(canonical, canon) == canonical[canon] \cup {canon}

\* the outer loop of list_set_match
RECURSIVE HitsOf(_, _, _)
HitsOf(canonical, names, txt) ==
    IF names = {} THEN {}
    ELSE LET canon == CHOOSE x \in names : TRUE
             rest == HitsOf(canonical, names \ {canon}, txt)
         IN IF AnyAlias(AliasSet(canonical, canon), txt) THEN rest \cup {canon} ELSE rest

Max(a, b) == IF a >= b THEN a ELSE b

\* variant: the partial threshold without its floor of one hit
VerdictOf_NoFloor(count, total) ==
    IF count = total THEN "correct"
    ELSE IF count >= total - 1 THEN "partial"
    ELSE "wrong"

\* lines 18-26; missing is a list built from a set, kept here as the set
VerdictOf(count, total) ==
    IF count = total THEN "correct"
    ELSE IF count >= Max(1, total - 1) THEN "partial"
    ELSE "wrong"

list_set_match(transcript, canonical) ==
    LET txt == normalize_text(transcript)
        hits == HitsOf(canonical, DOMAIN canonical, txt)
        verdict == VerdictOf(Cardinality(hits), Cardinality(DOMAIN canonical))
    IN [verdict |-> verdict, hits |-> hits,
        missing |-> IF verdict = "correct" THEN {} ELSE DOMAIN canonical \ hits]

\* confidence is held in hundredths: 85 is the 0.85 of line 29
EaseThreshold == 85
DefaultConfidence == 100
\* variant: the comparison with the threshold is not strict
ease_from_verdict_AtLeast(verdict, confidence) ==
    IF verdict = "correct" /\ confidence >= EaseThreshold THEN 4
    ELSE IF verdict = "correct" THEN 3
    ELSE IF verdict = "partial" THEN 2
    ELSE 1

ease_from_verdict(verdict, confidence) ==
    IF verdict = "correct" /\ confidence > EaseThreshold THEN 4
    ELSE IF verdict = "correct" THEN 3
    ELSE IF verdict = "partial" THEN 2
    ELSE 1

\* main.py lines 248-252: the table /grade is wired to
ApiGradeCanonical ==
    [canon \in {"enhanced mobile broadband", "ultra reliable low latency",
                "massive machine type"} |->
        CASE canon = "enhanced mobile broadband" -> {"embb", "enhanced mobile broadband"}
          [] canon = "ultra reliable low latency" -> {"urllc", "ultra reliable low latency"}
          [] canon = "massive machine type" ->
                {"mmtc", "massive machine type", "massive machine type communications"}]

\* variant: the two reason lists are swapped
api_grade_Swapped(transcript) ==
    LET m == list_set_match(transcript, ApiGradeCanonical)
    IN [verdict |-> m.verdict, suggested_ease |-> ease_from_verdict(m.verdict, DefaultConfidence),
        rule_hits |-> m.missing, rule_missing |-> m.hits]

api_grade(transcript) ==
    LET m == list_set_match(transcript, ApiGradeCanonical)
    IN [verdict |-> m.verdict, suggested_ease |-> ease_from_verdict(m.verdict, DefaultConfidence),
        rule_hits |-> m.hits, rule_missing |-> m.missing]

\* ------------------------------------------------------- the judge's inputs
TranscriptTokens == {"Ab", " c  d", "e.&amp;", "g~"}

RECURSIVE Transcripts(_)
Transcripts(n) ==
    IF n = 0 THEN {""}
    ELSE {t \o k : t \in Transcripts(n - 1), k \in TranscriptTokens \cup {""}}

\* the concepts a table is built from, each with the alias sets it may carry
ConceptNames == {"ab", "c d", "e", "g"}
AliasChoices(canon) ==
    CASE canon = "ab" -> {{}, {"g e"}}
      [] canon = "c d" -> {{}}
      [] canon = "e" -> {{}, {"b c", "e/"}}
      [] canon = "g" -> {{}}

Tables ==
    UNION {{f \in [names -> SUBSET {"g e", "b c", "e/"}] :
              \A n \in names : f[n] \in AliasChoices(n)} :
           names \in {S \in SUBSET ConceptNames : Cardinality(S) <= MaxConcepts}}

GradeTranscripts ==
    {"embb and urllc only", "eMBB, URLLC &amp; mMTC", "Enhanced Mobile Broadband.", ""}

Verdicts == {"correct", "partial", "wrong", "Correct", ""}
Confidences == {0, 50, 84, 85, 86, 100}

NoTable == << >>
IdleJudge ==
    [op |-> "none", pc |-> "idle", transcript |-> "", canonical |-> NoTable, verdict |-> "",
     hits |-> {}, missing |-> {}, confidence |-> 0, ease |-> 0]

JInit == judge = IdleJudge

\* one call of the judge, the mapper or /grade, with its arguments
JudgeCalls ==
    {[IdleJudge EXCEPT !.op = "list_set_match", !.pc = "call",
                       !.transcript = t, !.canonical = c] :
        t \in Transcripts(MaxTranscript), c \in Tables}
    \cup {[IdleJudge EXCEPT !.op = "ease_from_verdict", !.pc = "call",
                            !.verdict = v, !.confidence = k] :
             v \in Verdicts, k \in Confidences}
    \cup {[IdleJudge EXCEPT !.op = "api_grade", !.pc = "call", !.transcript = t,
                            !.canonical = ApiGradeCanonical,
                            !.confidence = DefaultConfidence] :
             t \in GradeTranscripts}

JCallInit == judge \in JudgeCalls

Judge ==
    /\ judge.pc = "call" /\ judge.op = "list_set_match"
    /\ LET m == list_set_match(judge.transcript, judge.canonical)
       IN judge' = [judge EXCEPT !.pc = "done", !.verdict = m.verdict,
                                 !.hits = m.hits, !.missing = m.missing]
    /\ UNCHANGED <<req, cache, media, asked, http, env, call, tool, server, bridge>>

MapEase ==
    /\ judge.pc = "call" /\ judge.op = "ease_from_verdict"
    /\ judge' = [judge EXCEPT !.pc = "done",
                              !.ease = ease_from_verdict(judge.verdict, judge.confidence)]
    /\ UNCHANGED <<req, cache, media, asked, http, env, call, tool, server, bridge>>

ApiGrade ==
    /\ judge.pc = "call" /\ judge.op = "api_grade"
    /\ LET g == api_grade(judge.transcript)
       IN judge' = [judge EXCEPT !.pc = "done", !.verdict = g.verdict,
                                 !.hits = g.rule_hits, !.missing = g.rule_missing,
                                 !.ease = g.suggested_ease]
    /\ UNCHANGED <<req, cache, media, asked, http, env, call, tool, server, bridge>>

\* ------------------------------------------------------ main.py: handlers
HReqs == {"h1", "h2"}

Envs == [USE_GPT5 : BOOLEAN, OPENAI_API_KEY : BOOLEAN]
DefaultEnv == [USE_GPT5 |-> TRUE, OPENAI_API_KEY |-> FALSE]

\* a request sent to a collaborator: AnkiConnect ("anki") or the generative
\* backend ("llm"); arg holds the integers, text the strings it carries
Request(to, action, arg, text) ==
    [to |-> to, action |-> action, arg |-> arg, text |-> text]

\* ankiconnect.py: the action each helper posts
show_answer == Request("anki", "guiShowAnswer", << >>, << >>)
answer_card(ease) == Request("anki", "guiAnswerCard", <<ease>>, << >>)
close_reviewer == Request("anki", "guiDeckOverview", << >>, << >>)
delete_note(note_id) == Request("anki", "deleteNotes", <<note_id>>, << >>)
suspend_cards(card_ids) == Request("anki", "suspend", card_ids, << >>)

\* what such a helper returns: the raw reply, or {"error": ...} when the
\* transport raised
AnkiResult(outcome) ==
    CASE outcome = "raise" -> [result |-> None, error |-> "AnkiConnect timeout"]
      [] outcome = "error" -> [result |-> None, error |-> "collection is not available"]
      [] outcome = "empty" -> [result |-> None, error |-> None]
      [] outcome = "data" -> [result |-> "true", error |-> None]

\* openai_client.py: the chat request each function posts
grade_with_gpt5_explanation(question, reference, transcript) ==
    Request("llm", "grade_with_explanation", << >>, <<question, reference, transcript>>)
answer_followup(question_text, reference_text, user_question) ==
    Request("llm", "answer_followup", << >>, <<question_text, reference_text, user_question>>)

\* How one call of the generative backend can end: the reply carries text or
\* none, the transport raises (connect error, HTTP status), or it times out.
LlmOutcomes == {"text", "empty", "raise", "timeout"}
LlmRaises(outcome) == outcome \in {"raise", "timeout"}
\* text or default_response
LlmText(outcome, default_response) ==
    IF outcome = "text" THEN "You missed mMTC." ELSE default_response

\* the request bodies: GradeIn, SubmitGradeIn, AskIn, DeleteNoteIn and the
\* path parameter of /answer
Eases == {0, 1, 4, 5}
CardIds == {7, 8}
OptionalTexts == {None, "", "q"}
NoInput ==
    [cardId |-> 0, ease |-> 0, transcript |-> "", question |-> "",
     question_text |-> None, reference_text |-> None]
EaseInputs == {[NoInput EXCEPT !.cardId = 7, !.ease = e] : e \in Eases}
GradeInputs == {[NoInput EXCEPT !.cardId = 7, !.transcript = t] : t \in GradeTranscripts}
TextInputs ==
    {[NoInput EXCEPT !.cardId = 7, !.transcript = "embb", !.question = "why",
                     !.question_text = q, !.reference_text = r] :
        q \in OptionalTexts, r \in OptionalTexts}
DeleteInputs == {[NoInput EXCEPT !.cardId = c] : c \in CardIds}

NoBody == [detail |-> None]
IdleHttp ==
    [pc |-> "idle", op |-> "none", inp |-> NoInput, calls |-> << >>,
     replies |-> << >>, llm |-> None, status |-> 0, body |-> NoBody]

HInit ==
    /\ http = [h \in HReqs |-> IdleHttp]
    /\ env = DefaultEnv

\* the handler starts: op and input are bound
Begin(op, inp) == [IdleHttp EXCEPT !.op = op, !.inp = inp]
\* the handler awaits the reply to a request it sends
Await(base, request) ==
    [base EXCEPT !.pc = request.action, !.calls = Append(@, request)]
\* the reply to the awaited request arrives (history: the replies in order)
Reply(base, result) == [base EXCEPT !.replies = Append(@, result)]
\* the handler returns, or raises HTTPException(status, detail)
Respond(base, status, body) ==
    [base EXCEPT !.pc = "done", !.status = status, !.body = body]
HTTPException(base, status, detail) == Respond(base, status, [detail |-> detail])
\* an exception no handler catches: the framework answers 500
Unhandled(base) == Respond(base, 500, [detail |-> "Internal Server Error"])

\* variant: only the upper end of the range is checked
ValidEase_NoLower(ease) == ease <= 4

\* lines 241 and 285: ease in (1,2,3,4)
ValidEase(ease) == ease \in {1, 2, 3, 4}

\* lines 261 and 309: both texts are present and non-empty
HasTexts(inp) == Truthy(inp.question_text) /\ Truthy(inp.reference_text)

\* api_answer, lines 239-243, up to the await
PostAnswer(h) ==
    /\ http[h].pc = "idle"
    /\ \E inp \in EaseInputs :
          LET base == Begin("answer", inp)
          IN http' = [http EXCEPT ![h] =
                IF ~ValidEase(inp.ease)
                THEN HTTPException(base, 400, "ease must be 1..4")
                ELSE Await(base, answer_card(inp.ease))]
    /\ UNCHANGED <<req, cache, media, asked, judge, env, call, tool, server, bridge>>

\* api_answer, line 243: the reply of answer_card is returned as it is
PostAnswerReturn(h) ==
    /\ http[h].op = "answer" /\ http[h].pc = "guiAnswerCard"
    /\ \E outcome \in Outcomes :
          http' = [http EXCEPT ![h] =
                Respond(Reply(@, AnkiResult(outcome)), 200, AnkiResult(outcome))]
    /\ UNCHANGED <<req, cache, media, asked, judge, env, call, tool, server, bridge>>

\* variant: /grade asks the generative backend before it answers
PostGrade_ViaBackend(h) ==
    /\ http[h].pc = "idle"
    /\ \E inp \in GradeInputs :
          http' = [http EXCEPT ![h] =
                Await(Begin("grade", inp),
                      grade_with_gpt5_explanation("", "", inp.transcript))]
    /\ UNCHANGED <<req, cache, media, asked, judge, env, call, tool, server, bridge>>

\* api_grade, lines 245-256: no await, the handler runs to its return
PostGrade(h) ==
    /\ http[h].pc = "idle"
    /\ \E inp \in GradeInputs :
          http' = [http EXCEPT ![h] =
                Respond(Begin("grade", inp), 200, api_grade(inp.transcript))]
    /\ UNCHANGED <<req, cache, media, asked, judge, env, call, tool, server, bridge>>

\* api_grade_with_explanation, lines 258-276, up to the await
PostGradeWithExplanation(h) ==
    /\ http[h].pc = "idle"
    /\ \E inp \in TextInputs :
          LET base == Begin("explain", inp)
          IN http' = [http EXCEPT ![h] =
                IF ~HasTexts(inp)
                THEN HTTPException(base, 400,
                        "grade-with-explanation requires question_text and reference_text")
                ELSE IF ~env.USE_GPT5
                THEN Respond(base, 200, [explanation |-> "Test mode: looks correct."])
                ELSE IF ~env.OPENAI_API_KEY
                THEN HTTPException(base, 503, "OPENAI_API_KEY is not set on the server")
                ELSE Await(base, grade_with_gpt5_explanation(
                               inp.question_text, inp.reference_text, inp.transcript))]
    /\ UNCHANGED <<req, cache, media, asked, judge, env, call, tool, server, bridge>>

\* api_grade_with_explanation, lines 272-281: the backend's call ends; every
\* exception becomes HTTPException(502)
PostGradeWithExplanationReturn(h) ==
    /\ http[h].op = "explain" /\ http[h].pc = "grade_with_explanation"
    /\ \E outcome \in LlmOutcomes :
          LET base == [http[h] EXCEPT !.llm = outcome]
          IN http' = [http EXCEPT ![h] =
                IF LlmRaises(outcome)
                THEN HTTPException(base, 502, "LLM backend failed")
                ELSE Respond(base, 200, [explanation |-> LlmText(outcome, "Correct.")])]
    /\ UNCHANGED <<req, cache, media, asked, judge, env, call, tool, server, bridge>>

\* submit_manual_grade, lines 283-290, up to the first await
PostSubmitGrade(h) ==
    /\ http[h].pc = "idle"
    /\ \E inp \in EaseInputs :
          LET base == Begin("submit", inp)
          IN http' = [http EXCEPT ![h] =
                IF ~ValidEase(inp.ease)
                THEN HTTPException(base, 400, "ease must be 1..4")
                ELSE Await(base, show_answer)]
    /\ UNCHANGED <<req, cache, media, asked, judge, env, call, tool, server, bridge>>

\* variant: the reply of show_answer is not inspected
PostSubmitGradeShown_Unchecked(h) ==
    /\ http[h].op = "submit" /\ http[h].pc = "guiShowAnswer"
    /\ \E outcome \in Outcomes :
          http' = [http EXCEPT ![h] =
                Await(Reply(@, AnkiResult(outcome)), answer_card(http[h].inp.ease))]
    /\ UNCHANGED <<req, cache, media, asked, judge, env, call, tool, server, bridge>>

\* submit_manual_grade, lines 290-296: the reply of show_answer arrives
PostSubmitGradeShown(h) ==
    /\ http[h].op = "submit" /\ http[h].pc = "guiShowAnswer"
    /\ \E outcome \in Outcomes :
          LET sa == AnkiResult(outcome)
          IN http' = [http EXCEPT ![h] =
                IF Truthy(sa.error)
                THEN HTTPException(Reply(@, sa), 409, "Reviewer not ready")
                ELSE Await(Reply(@, sa), answer_card(http[h].inp.ease))]
    /\ UNCHANGED <<req, cache, media, asked, judge, env, call, tool, server, bridge>>

\* submit_manual_grade, lines 296-301: the reply of answer_card arrives
PostSubmitGradeAnswered(h) ==
    /\ http[h].op = "submit" /\ http[h].pc = "guiAnswerCard"
    /\ \E outcome \in Outcomes :
          LET ans == AnkiResult(outcome)
          IN http' = [http EXCEPT ![h] =
                IF Truthy(ans.error)
                THEN HTTPException(Reply(@, ans), 502, "AnkiConnect error")
                ELSE Respond(Reply(@, ans), 200, ans)]
    /\ UNCHANGED <<req, cache, media, asked, judge, env, call, tool, server, bridge>>

\* ask_about_card, lines 307-315, up to the await
PostAsk(h) ==
    /\ http[h].pc = "idle"
    /\ \E inp \in TextInputs :
          LET base == Begin("ask", inp)
          IN http' = [http EXCEPT ![h] =
                IF ~HasTexts(inp)
                THEN HTTPException(base, 400,
                        "ask requires question_text and reference_text")
                ELSE Await(base, answer_followup(
                               inp.question_text, inp.reference_text, inp.question))]
    /\ UNCHANGED <<req, cache, media, asked, judge, env, call, tool, server, bridge>>

\* ask_about_card, lines 311-316: the backend's call ends; the await stands
\* in no try block, so what answer_followup raises leaves the handler
PostAskReturn(h) ==
    /\ http[h].op = "ask" /\ http[h].pc = "answer_followup"
    /\ \E outcome \in LlmOutcomes :
          LET base == [http[h] EXCEPT !.llm = outcome]
          IN http' = [http EXCEPT ![h] =
                IF LlmRaises(outcome)
                THEN Unhandled(base)
                ELSE Respond(base, 200,
                             [answer |-> LlmText(outcome, "I don't have an answer.")])]
    /\ UNCHANGED <<req, cache, media, asked, judge, env, call, tool, server, bridge>>

\* variant: the note is deleted after the reviewer was closed
PostDeleteNote_Deleting(h) ==
    /\ http[h].pc = "idle"
    /\ \E inp \in DeleteInputs :
          http' = [http EXCEPT ![h] =
                [Await(Await(Begin("delete", inp), close_reviewer),
                       delete_note(inp.cardId)) EXCEPT !.pc = "suspend"]]
    /\ UNCHANGED <<req, cache, media, asked, judge, env, call, tool, server, bridge>>

\* delete_current_note, lines 318-324, up to the await
PostDeleteNote(h) ==
    /\ http[h].pc = "idle"
    /\ \E inp \in DeleteInputs :
          http' = [http EXCEPT ![h] =
                Await(Begin("delete", inp), suspend_cards(<<inp.cardId>>))]
    /\ UNCHANGED <<req, cache, media, asked, judge, env, call, tool, server, bridge>>

\* delete_current_note, lines 324-333: the reply of suspend_cards arrives
PostDeleteNoteReturn(h) ==
    /\ http[h].op = "delete" /\ http[h].pc = "suspend"
    /\ \E outcome \in Outcomes :
          LET result == AnkiResult(outcome)
          IN http' = [http EXCEPT ![h] =
                IF Truthy(result.error)
                THEN HTTPException(Reply(@, result), 502, "AnkiConnect error")
                ELSE Respond(Reply(@, result), 200, result)]
    /\ UNCHANGED <<req, cache, media, asked, judge, env, call, tool, server, bridge>>

\* ------------------------------------------- normalize.py: the study region
\* The tree html.parser builds from the markup, as the list of its elements
\* in document order.  parent is the index of the enclosing element, 0 at
\* the top level; class is the list of class tokens; lang is None when the
\* attribute is absent; text is the string the element starts with.
Element(name, class, lang, text) ==
    [name |-> name, class |-> class, lang |-> lang, text |-> text, parent |-> 0]

Elements ==
    {Element("div", <<"README">>, None, "a"),
     Element("div", <<"x", "README">>, "es-ES", " b "),
     Element("div", <<"from-front">>, None, ""),
     Element("div", <<"README">>, "", "~"),
     Element("span", << >>, "en-US", "c"),
     Element("span", <<"README">>, "", "d")}

RECURSIVE find_parents(_, _)
find_parents(doc, i) ==
    IF doc[i].parent = 0 THEN {}
    ELSE {doc[i].parent} \cup find_parents(doc, doc[i].parent)

\* where the next element of the document can be opened: at the top level,
\* inside the last element, or inside one of its ancestors
OpenAt(doc) ==
    {0} \cup (IF doc = << >> THEN {} ELSE {Len(doc)} \cup find_parents(doc, Len(doc)))

RECURSIVE Docs(_)
Docs(n) ==
    IF n = 0 THEN {<< >>}
    ELSE LET shorter == Docs(n - 1)
         IN shorter \cup
            UNION {{Append(d, [e EXCEPT !.parent = at]) : e \in Elements, at \in OpenAt(d)} :
                   d \in {q \in shorter : Len(q) = n - 1}}

\* the argument s: None, the empty string, or markup with its tree
NoMarkup == [s |-> "none", doc |-> << >>]
EmptyMarkup == [s |-> "empty", doc |-> << >>]
Markup(doc) == [s |-> "html", doc |-> doc]

\* line 34: "README" in classes
has_readme(elem) == \E k \in 1..Len(elem.class) : elem.class[k] = "README"

\* line 46: div.find_parent("div", class_="from-front") is not None
InFromFront(doc, i) ==
    \E a \in find_parents(doc, i) :
       /\ doc[a].name = "div"
       /\ \E k \in 1..Len(doc[a].class) : doc[a].class[k] = "from-front"

\* variant: a README div inside a from-front div is skipped whatever the flag
Skipped_Always(doc, i, exclude_from_front) == InFromFront(doc, i)

\* lines 44-49
Skipped(doc, i, exclude_from_front) == exclude_from_front /\ InFromFront(doc, i)

\* lines 30-53: the loop over soup.find_all("div"); 0 when it finds none
RECURSIVE FindReadme(_, _, _)
FindReadme(doc, exclude_from_front, i) ==
    IF i > Len(doc) THEN 0
    ELSE IF /\ doc[i].name = "div"
            /\ has_readme(doc[i])
            /\ ~Skipped(doc, i, exclude_from_front)
         THEN i
         ELSE FindReadme(doc, exclude_from_front, i + 1)

\* the elements get_text and find_all(True) visit from root: the root and
\* its descendants; root 0 is the whole document
InTree(doc, root, i) == root = 0 \/ i = root \/ root \in find_parents(doc, i)

\* get_text(" ", strip=True): the stripped strings that are not empty,
\* joined by one space
RECURSIVE JoinFrom(_, _, _)
JoinFrom(doc, root, i) ==
    IF i > Len(doc) THEN ""
    ELSE LET rest == JoinFrom(doc, root, i + 1)
             piece == IF InTree(doc, root, i) THEN Strip(doc[i].text) ELSE ""
         IN IF piece = "" THEN rest
            ELSE IF rest = "" THEN piece
            ELSE piece \o " " \o rest

get_text(doc, root) == JoinFrom(doc, root, 1)

\* lines 72-79: the parent steps from elem up to readme_div
RECURSIVE DepthFrom(_, _, _)
DepthFrom(doc, readme_div, current) ==
    IF current = readme_div \/ doc[current].parent = 0 THEN 0
    ELSE 1 + DepthFrom(doc, readme_div, doc[current].parent)

\* variant: an element as deep as the deepest so far replaces it
Deeper_OrEqual(depth, max_depth) == depth >= max_depth

\* line 82
Deeper(depth, max_depth) == depth > max_depth

\* lines 63-84: the scan for the innermost element with a lang attribute
\* that is true; 0 when there is none
RECURSIVE Innermost(_, _, _, _, _)
Innermost(doc, readme_div, i, innermost, max_depth) ==
    IF i > Len(doc) THEN innermost
    ELSE IF /\ InTree(doc, readme_div, i)
            /\ Truthy(doc[i].lang)
            /\ Deeper(DepthFrom(doc, readme_div, i), max_depth)
         THEN Innermost(doc, readme_div, i + 1, i, DepthFrom(doc, readme_div, i))
         ELSE Innermost(doc, readme_div, i + 1, innermost, max_depth)

Extracted(region, text, lang) == [region |-> region, text |-> text, lang |-> lang]

\* variant: without a study region nothing is extracted
Fallback_Empty(doc) == Extracted(0, "", None)

\* lines 93-96
Fallback(doc) == Extracted(0, get_text(doc, 0), None)

\* lines 9-96, the parse of line 25 done; region is readme_div, 0 for none
html_to_text_readme_only(s, exclude_from_front) ==
    IF s.s \in {"none", "empty"} THEN Extracted(0, "", None)
    ELSE LET readme_div == FindReadme(s.doc, exclude_from_front, 1)
             innermost == Innermost(s.doc, readme_div, readme_div, 0, -1)
         IN IF readme_div = 0 THEN Fallback(s.doc)
            ELSE Extracted(readme_div, get_text(s.doc, readme_div),
                           IF innermost # 0 THEN s.doc[innermost].lang
                           ELSE s.doc[readme_div].lang)

\* ------------------------------------------------------ main.py: current
\* What the add-on answers to GET /current: {"status": "idle"} without a
\* card, else status ok with the card's id and the markup of its two
\* sides.  cardId 0 stands for a reply whose card id is missing, null or 0,
\* all of them false at line 204.
CurrentMarkups == {NoMarkup} \cup {Markup(d) : d \in Docs(1) \ {<< >>}}
AddonReplies ==
    {d \in [status : {"ok", "idle"}, cardId : {0, 7},
            front_html : CurrentMarkups, back_html : CurrentMarkups] :
        d.status = "idle" => d.cardId = 0 /\ d.front_html = NoMarkup /\ d.back_html = NoMarkup}
IdleAddon == [status |-> "idle", cardId |-> 0, front_html |-> NoMarkup, back_html |-> NoMarkup]

\* what get_language_hints can hand back for a card with a deck name, lines
\* 96-108: the codes of the override tags, completed from the deck config
LangHints ==
    {IF Truthy(f) /\ Truthy(b) THEN Hints(f, b, FALSE) ELSE FillFromConfig(f, b, c) :
        f \in {None, "", "fr-FR"}, b \in {None, "it-IT"},
        c \in {JsonNull, ObjFull, ObjFrontOnly, JsonArray(1)}}

NoResponse ==
    [status |-> None, front_language |-> None, back_language |-> None,
     front_lang_from_div |-> None, back_lang_from_div |-> None, consulted |-> FALSE]
\* lines 180-185 and 216-233: the error response carries no languages
ErrorResponse(consulted) == [NoResponse EXCEPT !.status = "error", !.consulted = consulted]

\* lines 207-208: lang_from_div or hint or "en-US"
SideLanguage(lang_from_div, hint) ==
    IF Truthy(lang_from_div) THEN lang_from_div ELSE OrDefault(hint)

\* current, lines 178-233: the response to the add-on's reply data, given
\* what get_language_hints does when it is called
current(data, lang_hints) ==
    IF data.status # "ok" THEN ErrorResponse(FALSE)
    ELSE LET front == html_to_text_readme_only(data.front_html, FALSE)
             back == html_to_text_readme_only(data.back_html, TRUE)
             ok == [NoResponse EXCEPT !.status = "ok",
                                      !.front_lang_from_div = front.lang,
                                      !.back_lang_from_div = back.lang]
         IN IF data.cardId # 0
            THEN IF lang_hints.raised THEN ErrorResponse(TRUE)
                 ELSE [ok EXCEPT
                         !.front_language =
                             SideLanguage(front.lang, lang_hints.front_language),
                         !.back_language =
                             SideLanguage(back.lang, lang_hints.back_language),
                         !.consulted = TRUE]
            ELSE [ok EXCEPT !.front_language = SideLanguage(front.lang, None),
                            !.back_language = SideLanguage(back.lang, None)]

\* ------------------------------- anki_voice_lang_setup.py: the file name
\* lines 48-50
sanitize_for_filename(name) == SubRuns(Strip(name), 1, FALSE)

\* ------------------------------------------------- the text functions' calls
\* deck names: up to MaxDeckName of these pieces, and the spec's example
DeckNamePieces == {"Sp", " ", "/", "1.", "_-"}

RECURSIVE DeckNameArgs(_)
DeckNameArgs(n) ==
    IF n = 0 THEN {""}
    ELSE {d \o k : d \in DeckNameArgs(n - 1), k \in DeckNamePieces \cup {""}}

\* strings to normalize: the transcripts, and references that unescape to
\* the text of a reference
NormalizeArgs ==
    Transcripts(MaxTranscript) \cup {"&amp;lt;", "&amp;amp;nbsp;x", "A &lt B", "&nbsp;-/ "}

IdleCall ==
    [op |-> "none", pc |-> "idle", s |-> "", markup |-> NoMarkup,
     exclude_from_front |-> FALSE, out |-> "", tool_out |-> "", file |-> "",
     twice |-> "", region |-> 0, text |-> "", lang |-> None,
     data |-> IdleAddon, lang_hints |-> Hints(None, None, FALSE),
     response |-> NoResponse]

CInit == call = IdleCall

TextCalls ==
    {[IdleCall EXCEPT !.op = "sanitize_deck_name_for_filename", !.pc = "call", !.s = d] :
        d \in DeckNameArgs(MaxDeckName) \cup {"Spanish 1/Greetings"}}
    \cup {[IdleCall EXCEPT !.op = "normalize_text", !.pc = "call", !.s = t] :
             t \in NormalizeArgs}
    \cup {[IdleCall EXCEPT !.op = "html_to_text_readme_only", !.pc = "call",
                            !.markup = m, !.exclude_from_front = x] :
             m \in {NoMarkup, EmptyMarkup} \cup {Markup(d) : d \in Docs(MaxNodes)},
             x \in BOOLEAN}
    \cup {[IdleCall EXCEPT !.op = "current", !.pc = "call", !.data = d, !.lang_hints = h] :
             d \in AddonReplies, h \in LangHints}

CCallInit == call \in TextCalls

\* the server and the setup tool derive the blob name of a deck
Sanitize ==
    /\ call.pc = "call" /\ call.op = "sanitize_deck_name_for_filename"
    /\ call' = [call EXCEPT !.pc = "done",
                            !.out = sanitize_deck_name_for_filename(call.s),
                            !.tool_out = sanitize_for_filename(call.s),
                            !.file = ConfigFilename(call.s)]
    /\ UNCHANGED <<req, cache, media, asked, judge, http, env, tool, server, bridge>>

Normalize ==
    /\ call.pc = "call" /\ call.op = "normalize_text"
    /\ call' = [call EXCEPT !.pc = "done", !.out = normalize_text(call.s)]
    /\ UNCHANGED <<req, cache, media, asked, judge, http, env, tool, server, bridge>>

\* the result is normalized once more
NormalizeAgain ==
    /\ call.pc = "done" /\ call.op = "normalize_text"
    /\ call' = [call EXCEPT !.pc = "again", !.twice = normalize_text(call.out)]
    /\ UNCHANGED <<req, cache, media, asked, judge, http, env, tool, server, bridge>>

Extract ==
    /\ call.pc = "call" /\ call.op = "html_to_text_readme_only"
    /\ LET e == html_to_text_readme_only(call.markup, call.exclude_from_front)
       IN call' = [call EXCEPT !.pc = "done", !.region = e.region,
                               !.text = e.text, !.lang = e.lang]
    /\ UNCHANGED <<req, cache, media, asked, judge, http, env, tool, server, bridge>>

\* GET /current for a reply of the add-on
Current ==
    /\ call.pc = "call" /\ call.op = "current"
    /\ call' = [call EXCEPT !.pc = "done", !.response = current(call.data, call.lang_hints)]
    /\ UNCHANGED <<req, cache, media, asked, judge, http, env, tool, server, bridge>>

\* ------------------------------------------- anki_voice_lang_setup.py: main
\* the command line: --deck, --front-lang, --back-lang (None when not
\* given), --tag-notes, --remove-note-tags, --dry-run
ToolArgs ==
    [deck : DeckNames, front_lang : {None, "es-ES"}, back_lang : {None, "en-US"},
     tag_notes : BOOLEAN, remove_note_tags : BOOLEAN, dry_run : BOOLEAN]

\* the number of times the tool is run, one run after the other
MaxRuns == 2

\* the tags of the deck's notes before the first run: one note without
\* tags, the others with the literal token av:front= and a coded av:back tag
NoteTags(notes) ==
    [n \in {notes[i] : i \in 1..Len(notes)} |->
        IF n = notes[1] THEN {} ELSE {"av:front=", "av:back=it-IT"}]

\* what Anki holds when the tool runs: its decks, the notes of the deck with
\* their tags, and (history) the languages last stored for each deck
ToolWorlds ==
    {[decks |-> d, notes |-> n, tags |-> NoteTags(n), stored |-> << >>] :
        d \in {{"A b", "C"}, {"C"}}, n \in {<< >>, <<11, 12>>}}

\* How one call of ac can end: it returns the result, or it raises
\* RuntimeError (Anki unreachable, or the reply carries an error).
AcOutcomes == {"ok", "raise"}

\* variant: the two languages change places in the file
DeckConfig_Swapped(front_lang, back_lang) ==
    JsonText(JsonObject({"frontLang", "backLang"}, back_lang, front_lang))

\* lines 62-63: the JSON text written for the deck
DeckConfig(front_lang, back_lang) ==
    JsonText(JsonObject({"frontLang", "backLang"}, front_lang, back_lang))

\* variant: the file is stored whatever --dry-run says
write_deck_config_media_Always(deck_name, front_lang, back_lang, dry_run) ==
    <<Request("anki", "storeMediaFile", << >>,
              <<"_ankiVoice.deck." \o sanitize_for_filename(deck_name) \o ".json",
                front_lang, back_lang>>)>>

\* lines 60-73: the requests the function sends
write_deck_config_media(deck_name, front_lang, back_lang, dry_run) ==
    IF dry_run THEN << >>
    ELSE <<Request("anki", "storeMediaFile", << >>,
                   <<"_ankiVoice.deck." \o sanitize_for_filename(deck_name) \o ".json",
                     front_lang, back_lang>>)>>

\* lines 76-78
find_notes_in_deck(deck_name) ==
    Request("anki", "findNotes", << >>, <<"deck:\"" \o deck_name \o "\"">>)

\* lines 81-89: the requests the function sends
add_lang_tags_to_notes(note_ids, front_lang, back_lang, dry_run) ==
    IF note_ids = << >> THEN << >>
    ELSE IF dry_run THEN << >>
    ELSE <<Request("anki", "addTags", note_ids,
                   <<"av:front=" \o front_lang \o " av:back=" \o back_lang>>)>>

\* variant: the tokens to remove carry language codes
remove_lang_tags_from_notes_Coded(note_ids, dry_run) ==
    IF note_ids = << >> THEN << >>
    ELSE IF dry_run THEN << >>
    ELSE <<Request("anki", "removeTags", note_ids, <<"av:front=es-ES av:back=en-US">>)>>

\* lines 92-110: the requests the function sends
remove_lang_tags_from_notes(note_ids, dry_run) ==
    IF note_ids = << >> THEN << >>
    ELSE IF dry_run THEN << >>
    ELSE <<Request("anki", "removeTags", note_ids, <<"av:front= av:back=">>)>>

\* Anki's tags are whole tokens: the tokens of a space-separated tag string
RECURSIVE TokensFrom(_, _, _)
TokensFrom(s, i, token) ==
    IF i > Len(s) THEN (IF token = "" THEN {} ELSE {token})
    ELSE IF CharAt(s, i) = " "
         THEN (IF token = "" THEN {} ELSE {token}) \cup TokensFrom(s, i + 1, "")
         ELSE TokensFrom(s, i + 1, token \o CharAt(s, i))
Tokens(s) == TokensFrom(s, 1, "")

\* Anki's addTags and removeTags: each token named is added to, or removed
\* from, every note named; removing a token a note does not carry is a no-op
Tagged(tags, request) ==
    [n \in DOMAIN tags |->
        IF \A i \in 1..Len(request.arg) : request.arg[i] # n THEN tags[n]
        ELSE IF request.action = "addTags"
             THEN tags[n] \cup Tokens(request.text[1])
             ELSE tags[n] \ Tokens(request.text[1])]

IdleTool ==
    [pc |-> "idle",
     args |-> [deck |-> "A b", front_lang |-> None, back_lang |-> None,
               tag_notes |-> FALSE, remove_note_tags |-> FALSE, dry_run |-> FALSE],
     world |-> [decks |-> {}, notes |-> << >>, tags |-> << >>, stored |-> << >>],
     calls |-> << >>, exit |-> None, runs |-> 1]

TInit == tool = IdleTool

ToolRuns ==
    {[IdleTool EXCEPT !.pc = "main", !.args = a, !.world = w] :
        a \in ToolArgs, w \in ToolWorlds}

TRunInit == tool \in ToolRuns

\* the tool sends a request and waits for the reply
Ac(request) == tool' = [tool EXCEPT !.pc = request.action, !.calls = Append(@, request)]
\* the process ends: "Done." is printed, or SystemExit, the parser's usage
\* error or an uncaught RuntimeError ends it
Exit(how) == tool' = [tool EXCEPT !.pc = "exit", !.exit = how]

\* main, lines 113-129
ToolMain ==
    /\ tool.pc = "main"
    /\ IF /\ ~Truthy(tool.args.front_lang) \/ ~Truthy(tool.args.back_lang)
          /\ ~tool.args.remove_note_tags
       THEN Exit("usage")
       ELSE Ac(Request("anki", "version", << >>, << >>))
    /\ UNCHANGED <<req, cache, media, asked, judge, http, env, call, server, bridge>>

\* main, lines 128-135, and ensure_deck_exists, line 54
ToolVersion ==
    /\ tool.pc = "version"
    /\ \E outcome \in AcOutcomes :
          IF outcome = "raise" THEN Exit("SystemExit")
          ELSE Ac(Request("anki", "deckNames", << >>, << >>))
    /\ UNCHANGED <<req, cache, media, asked, judge, http, env, call, server, bridge>>

\* ensure_deck_exists, lines 54-57, and main, lines 137-143
ToolDeckNames ==
    /\ tool.pc = "deckNames"
    /\ \E outcome \in AcOutcomes :
          LET a == tool.args
              stores == write_deck_config_media(a.deck, a.front_lang, a.back_lang, a.dry_run)
          IN IF outcome = "raise" THEN Exit("RuntimeError")
             ELSE IF a.deck \notin tool.world.decks THEN Exit("SystemExit")
             ELSE IF ~a.remove_note_tags /\ stores # << >> THEN Ac(stores[1])
             ELSE Ac(find_notes_in_deck(a.deck))
    /\ UNCHANGED <<req, cache, media, asked, judge, http, env, call, server, bridge>>

\* Anki's storeMediaFile: the file of that name holds the content sent
StoreMediaFile(files, filename, content) ==
    [f \in DOMAIN files \cup {filename} |-> IF f = filename THEN content ELSE files[f]]

\* write_deck_config_media, lines 69-73, and main, lines 140-143
ToolStored ==
    /\ tool.pc = "storeMediaFile"
    /\ \E outcome \in AcOutcomes :
          LET sent == tool.calls[Len(tool.calls)].text
              a == tool.args
          IN IF outcome = "raise"
             THEN Exit("RuntimeError") /\ UNCHANGED media
             ELSE /\ media' = StoreMediaFile(media, sent[1], DeckConfig(sent[2], sent[3]))
                  /\ tool' = [tool EXCEPT
                        !.pc = "findNotes",
                        !.calls = Append(@, find_notes_in_deck(a.deck)),
                        !.world.stored =
                            [d \in DOMAIN @ \cup {a.deck} |->
                                IF d = a.deck
                                THEN [front_lang |-> a.front_lang, back_lang |-> a.back_lang]
                                ELSE @[d]]]
    /\ UNCHANGED <<req, cache, asked, judge, http, env, call, server, bridge>>

\* main, lines 143-154
ToolFindNotes ==
    /\ tool.pc = "findNotes"
    /\ \E outcome \in AcOutcomes :
          LET a == tool.args
              note_ids == tool.world.notes
              sends == IF a.tag_notes /\ ~a.remove_note_tags
                       THEN add_lang_tags_to_notes(note_ids, a.front_lang, a.back_lang,
                                                   a.dry_run)
                       ELSE IF a.remove_note_tags
                       THEN remove_lang_tags_from_notes(note_ids, a.dry_run)
                       ELSE << >>
          IN IF outcome = "raise" THEN Exit("RuntimeError")
             ELSE IF sends # << >> THEN Ac(sends[1])
             ELSE Exit("Done")
    /\ UNCHANGED <<req, cache, media, asked, judge, http, env, call, server, bridge>>

\* add_lang_tags_to_notes, line 89, or remove_lang_tags_from_notes, line 110,
\* and main, lines 148-154
ToolTagged ==
    /\ tool.pc \in {"addTags", "removeTags"}
    /\ \E outcome \in AcOutcomes :
          IF outcome = "raise" THEN Exit("RuntimeError")
          ELSE tool' = [tool EXCEPT
                  !.pc = "exit", !.exit = "Done",
                  !.world.tags = Tagged(@, tool.calls[Len(tool.calls)])]
    /\ UNCHANGED <<req, cache, media, asked, judge, http, env, call, server, bridge>>

\* the tool is run again, with any command line, against the same Anki
ToolAgain ==
    /\ tool.pc = "exit"
    /\ tool.runs < MaxRuns
    /\ \E a \in ToolArgs :
          tool' = [tool EXCEPT !.pc = "main", !.args = a, !.calls = << >>,
                               !.exit = None, !.runs = @ + 1]
    /\ UNCHANGED <<req, cache, media, asked, judge, http, env, call, server, bridge>>

\* ------------------------------------------- bridge add-on: the HTTP server
\* lines 88 and 90: the two ports the add-on tries
PrimaryPort == 8770
FallbackPort == 8771
Ports == {PrimaryPort, FallbackPort}

\* the number of server objects the add-on constructs in one session
MaxServers == 3

\* srv and srv_thread are _srv and _srv_thread: 0 for None, else the number
\* of the server object and of its serving thread.  servers lists the
\* server objects constructed so far, each with its port, whether its
\* socket is still bound and whether its thread is still serving.  other is
\* the set of ports other programs hold.  event, log and raised record the
\* last hook that ran, the last line it logged and the exception it raised.
IdleServer ==
    [srv |-> 0, srv_thread |-> 0, servers |-> << >>, other |-> {},
     event |-> "none", log |-> "", raised |-> None]

SInit == server = IdleServer

\* binding the port raises OSError: another program, or a server object of
\* this process whose socket was never closed, holds it
Busy(s, port) ==
    \/ port \in s.other
    \/ \E i \in 1..Len(s.servers) : s.servers[i].bound /\ s.servers[i].port = port

\* lines 76-78 and 91-96: a server bound to the port, its thread serving
ThreadingHTTPServer(port) == [port |-> port, bound |-> TRUE, serving |-> TRUE]

\* _start_server, lines 83-98; the OSError of the second bind (line 90) is
\* not caught
start_server(s) ==
    IF s.srv # 0 THEN s
    ELSE IF Busy(s, PrimaryPort) /\ Busy(s, FallbackPort)
    THEN [s EXCEPT !.raised = "OSError"]
    ELSE LET port == IF Busy(s, PrimaryPort) THEN FallbackPort ELSE PrimaryPort
         IN [s EXCEPT !.servers = Append(@, ThreadingHTTPServer(port)),
                      !.srv = Len(s.servers) + 1,
                      !.srv_thread = Len(s.servers) + 1,
                      !.log = "HTTP server started"]

\* How shutting the held server down can end: both calls return, shutdown()
\* raises (the socket stays open, the thread may go on serving), or
\* server_close() raises (the thread has stopped, the socket may stay open).
StopOutcomes == {"ok", "shutdown raises", "server_close raises"}

\* variant: a server whose shutdown raised stays held
stop_server_KeepOnError(s, outcome, left) ==
    IF s.srv = 0 \/ outcome = "ok"
    THEN [s EXCEPT !.servers = IF s.srv = 0 THEN @
                                ELSE [@ EXCEPT ![s.srv].bound = FALSE,
                                               ![s.srv].serving = FALSE],
                   !.srv = 0, !.srv_thread = 0, !.log = "HTTP server stopped"]
    ELSE [s EXCEPT !.log = "shutdown error"]

\* _stop_server, lines 100-110; left is what a failed call leaves behind
stop_server(s, outcome, left) ==
    [s EXCEPT !.servers =
                 IF s.srv = 0 THEN @
                 ELSE CASE outcome = "ok" ->
                             [@ EXCEPT ![s.srv].bound = FALSE, ![s.srv].serving = FALSE]
                        [] outcome = "shutdown raises" ->
                             [@ EXCEPT ![s.srv].serving = left]
                        [] outcome = "server_close raises" ->
                             [@ EXCEPT ![s.srv].bound = left, ![s.srv].serving = FALSE],
              !.srv = 0, !.srv_thread = 0, !.log = "HTTP server stopped"]

Hook(event, line) ==
    [server EXCEPT !.event = event, !.log = line, !.raised = None]

\* _on_profile_open, lines 112-114
ProfileDidOpen ==
    /\ server.srv = 0 => Len(server.servers) < MaxServers
    /\ server' = start_server(Hook("profile_did_open", "profile_did_open -> starting server"))
    /\ UNCHANGED <<req, cache, media, asked, judge, http, env, call, tool, bridge>>

\* _on_profile_will_close, lines 116-118
ProfileWillClose ==
    /\ \E outcome \in StopOutcomes, left \in BOOLEAN :
          server' = stop_server(Hook("profile_will_close",
                                     "profile_will_close -> stopping server"),
                                outcome, left)
    /\ UNCHANGED <<req, cache, media, asked, judge, http, env, call, tool, bridge>>

\* a server object that is no longer held and whose thread has ended is
\* collected: its socket is closed
Collected ==
    /\ \E i \in 1..Len(server.servers) :
          /\ i # server.srv
          /\ server.servers[i].bound /\ ~server.servers[i].serving
          /\ server' = [server EXCEPT !.servers[i].bound = FALSE, !.event = "collected"]
    /\ UNCHANGED <<req, cache, media, asked, judge, http, env, call, tool, bridge>>

\* another program binds one of the ports, or gives it up
OtherProgram ==
    /\ \E port \in Ports :
          /\ port \notin server.other => ~Busy(server, port)
          /\ server' = [server EXCEPT
                !.other = IF port \in @ THEN @ \ {port} ELSE @ \cup {port},
                !.event = "other program"]
    /\ UNCHANGED <<req, cache, media, asked, judge, http, env, call, tool, bridge>>

\* --------------------------------------- bridge add-on: the handler threads
\* the threads ThreadingMixIn starts, one per request
Threads == {"t1", "t2"}
\* the card the reviewer shows: 0 for none, else its id
ReviewerCards == {0, 7, 8}
Paths == {"/ping", "/current", "/other"}

NoPayload == [status |-> None]
\* _read_current_card_on_ui, lines 33-47, for the reviewer's card
read_current_card_on_ui(card) ==
    IF card = 0 THEN [status |-> "idle"] ELSE [status |-> "ok", cardId |-> card]

\* out and done are the dict and the Event of the thread's call of
\* run_on_main_and_wait; task is history: whether the task the thread
\* scheduled has finished on the main thread, and with what.
NoOut == [res |-> NoPayload, err |-> None]
IdleThread ==
    [pc |-> "idle", path |-> "", done |-> FALSE, out |-> NoOut,
     task |-> [finished |-> FALSE, res |-> NoPayload, err |-> None],
     status |-> 0, payload |-> NoPayload]

\* thread: the handler threads; queue: the tasks handed to
\* mw.taskman.run_on_main, in order, each named by its thread; reviewer: the
\* reviewer's card; readers: history, who has read the reviewer's state
IdleBridge ==
    [thread |-> [t \in Threads |-> IdleThread], queue |-> << >>, reviewer |-> 0,
     readers |-> {}]

BInit == bridge = IdleBridge

\* _json, lines 52-58
Json(base, payload, code) == [base EXCEPT !.pc = "replied", !.status = code, !.payload = payload]

\* do_GET, lines 59-68 and 22-27 of run_on_main_and_wait: /ping and unknown
\* paths are answered by the thread itself; /current schedules the task on
\* the main thread and waits
Get(t) ==
    /\ bridge.thread[t].pc = "idle"
    /\ \E path \in Paths :
          LET base == [IdleThread EXCEPT !.path = path]
          IN CASE path = "/ping" ->
                    bridge' = [bridge EXCEPT !.thread[t] = Json(base, [ok |-> TRUE], 200)]
               [] path = "/current" ->
                    bridge' = [bridge EXCEPT !.thread[t] = [base EXCEPT !.pc = "waiting"],
                                             !.queue = Append(@, t)]
               [] OTHER ->
                    bridge' = [bridge EXCEPT
                                  !.thread[t] = Json(base, [error |-> "not found"], 404)]
    /\ UNCHANGED <<req, cache, media, asked, judge, http, env, call, tool, server>>

\* how the task's function can end
TaskOutcomes == {"return", "raise"}

\* variant: done is set only when the function returns
runner_NoFinally(b, t, outcome) ==
    LET res == read_current_card_on_ui(b.reviewer)
    IN [b EXCEPT !.readers = @ \cup {"main"},
                 !.thread[t] =
                    IF outcome = "return"
                    THEN [@ EXCEPT !.out.res = res, !.done = TRUE,
                                   !.task = [finished |-> TRUE, res |-> res, err |-> None]]
                    ELSE [@ EXCEPT !.out.err = "Exception",
                                   !.task = [finished |-> TRUE, res |-> NoPayload,
                                             err |-> "Exception"]]]

\* _runner, lines 20-26, run by the main thread for the call of thread t
runner(b, t, outcome) ==
    LET res == read_current_card_on_ui(b.reviewer)
    IN [b EXCEPT !.readers = @ \cup {"main"},
                 !.thread[t] =
                    IF outcome = "return"
                    THEN [@ EXCEPT !.out.res = res, !.done = TRUE,
                                   !.task = [finished |-> TRUE, res |-> res, err |-> None]]
                    ELSE [@ EXCEPT !.out.err = "Exception", !.done = TRUE,
                                   !.task = [finished |-> TRUE, res |-> NoPayload,
                                             err |-> "Exception"]]]

\* the main thread runs the next task handed to it
MainRuns ==
    /\ bridge.queue # << >>
    /\ \E outcome \in TaskOutcomes :
          bridge' = runner([bridge EXCEPT !.queue = Tail(@)], Head(bridge.queue), outcome)
    /\ UNCHANGED <<req, cache, media, asked, judge, http, env, call, tool, server>>

\* run_on_main_and_wait, lines 28-31, and do_GET, lines 66-74: done is set,
\* the thread wakes up and answers
Wake(t) ==
    /\ bridge.thread[t].pc = "waiting"
    /\ bridge.thread[t].done
    /\ bridge' = [bridge EXCEPT !.thread[t] =
                     IF @.out.err # None
                     THEN Json(@, [error |-> "internal"], 500)
                     ELSE Json(@, @.out.res, 200)]
    /\ UNCHANGED <<req, cache, media, asked, judge, http, env, call, tool, server>>

\* the request is over; the thread serves the next one
Served(t) ==
    /\ bridge.thread[t].pc = "replied"
    /\ bridge' = [bridge EXCEPT !.thread[t] = IdleThread]
    /\ UNCHANGED <<req, cache, media, asked, judge, http, env, call, tool, server>>

\* the user moves through the review on the main thread
ReviewerMoves ==
    /\ \E card \in ReviewerCards \ {bridge.reviewer} :
          bridge' = [bridge EXCEPT !.reviewer = card]
    /\ UNCHANGED <<req, cache, media, asked, judge, http, env, call, tool, server>>

\* ------------------------------------------------------- specifications
Init == RInit /\ JInit /\ HInit /\ CInit /\ TInit /\ SInit /\ BInit

\* Sequential execution: one resolution request at a time.
Next ==
    \/ \E r \in SeqReqs : Start(r, Cards)
    \/ \E r \in SeqReqs : CardInfoReturn(r)
    \/ \E r \in SeqReqs : NoteInfoReturn(r)
    \/ \E r \in SeqReqs : MediaReturn(r)
    \/ \E r \in SeqReqs : Finish(r)
    \/ ExternalWrite(Blobs)

Spec == Init /\ [][Next]_vars

\* Concurrent execution: the requests of Reqs interleave at every await.
NextConc ==
    \/ \E r \in Reqs : Start(r, ConcCards)
    \/ \E r \in Reqs : CardInfoReturn(r)
    \/ \E r \in Reqs : MediaReturn(r)
    \/ \E r \in Reqs : Finish(r)
    \/ ExternalWrite(ConcBlobs)

SpecConc == Init /\ [][NextConc]_vars

\* The judge, the mapper and /grade applied to every input of the bounded sets.
NextJudge == Judge \/ MapEase \/ ApiGrade

InitJudge == RInit /\ JCallInit /\ HInit /\ CInit /\ TInit /\ SInit /\ BInit

SpecJudge == InitJudge /\ [][NextJudge]_vars

\* The HTTP handlers: the requests of HReqs interleave at every await, under
\* every environment and with the deck-config cache empty or holding an entry.
ApiCaches == {<< >>, [d \in {"C"} |-> ObjFull]}

InitApi ==
    /\ req = [r \in Reqs |-> IdleReq]
    /\ cache \in ApiCaches
    /\ media = [f \in Filenames |-> NoBlob]
    /\ asked = {}
    /\ http = [h \in HReqs |-> IdleHttp]
    /\ env \in Envs
    /\ JInit /\ CInit /\ TInit /\ SInit /\ BInit

NextApi ==
    \/ \E h \in HReqs : PostAnswer(h)
    \/ \E h \in HReqs : PostAnswerReturn(h)
    \/ \E h \in HReqs : PostGrade(h)
    \/ \E h \in HReqs : PostGradeWithExplanation(h)
    \/ \E h \in HReqs : PostGradeWithExplanationReturn(h)
    \/ \E h \in HReqs : PostSubmitGrade(h)
    \/ \E h \in HReqs : PostSubmitGradeShown(h)
    \/ \E h \in HReqs : PostSubmitGradeAnswered(h)
    \/ \E h \in HReqs : PostAsk(h)
    \/ \E h \in HReqs : PostAskReturn(h)
    \/ \E h \in HReqs : PostDeleteNote(h)
    \/ \E h \in HReqs : PostDeleteNoteReturn(h)

SpecApi == InitApi /\ [][NextApi]_vars

\* The text functions applied to every input of the bounded sets.
NextText == Sanitize \/ Normalize \/ NormalizeAgain \/ Extract \/ Current

InitText == RInit /\ JInit /\ HInit /\ CCallInit /\ TInit /\ SInit /\ BInit

SpecText == InitText /\ [][NextText]_vars

\* The runs of the setup tool for every command line and every world.
NextTool ==
    \/ ToolMain \/ ToolVersion \/ ToolDeckNames \/ ToolStored \/ ToolFindNotes
    \/ ToolTagged \/ ToolAgain

InitTool == RInit /\ JInit /\ HInit /\ CInit /\ TRunInit /\ SInit /\ BInit

SpecTool == InitTool /\ [][NextTool]_vars

\* The setup tool and the resolver side by side: one run of the tool for a
\* deck Anki holds, without notes to tag, while the server resolves cards of
\* the decks; nothing else writes the media folder.
RoundRuns == {run \in ToolRuns : run.world.notes = << >> /\ run.args.deck \in run.world.decks}
RoundCards ==
    {c \in Cards : /\ c.deckName # None
                   /\ c.tags \in {<< >>, <<"av:front=fr-FR">>, <<"av:front=">>}}

InitRound == RInit /\ JInit /\ HInit /\ CInit /\ tool \in RoundRuns /\ SInit /\ BInit

NextRound ==
    \/ ToolMain \/ ToolVersion \/ ToolDeckNames \/ ToolStored \/ ToolFindNotes
    \/ \E r \in SeqReqs : Start(r, RoundCards)
    \/ \E r \in SeqReqs : CardInfoReturn(r)
    \/ \E r \in SeqReqs : NoteInfoReturn(r)
    \/ \E r \in SeqReqs : MediaReturn(r)
    \/ \E r \in SeqReqs : Finish(r)

SpecRound == InitRound /\ [][NextRound]_vars

\* The bridge add-on's server under every sequence of profile events.
NextServer == ProfileDidOpen \/ ProfileWillClose \/ Collected \/ OtherProgram

SpecServer == Init /\ [][NextServer]_vars

\* The bridge add-on's handler threads and the main thread, interleaved.
NextBridge ==
    \/ \E t \in Threads : Get(t)
    \/ MainRuns
    \/ \E t \in Threads : Wake(t)
    \/ \E t \in Threads : Served(t)
    \/ ReviewerMoves

SpecBridge == Init /\ [][NextBridge]_vars

\* ------------------------------------------------------------ properties
\* what the handler reports for a side whose study region has no language
ResolvedFront(r) == OrDefault(req[r].front_lang)
ResolvedBack(r) == OrDefault(req[r].back_lang)

Issues(r) == req[r].pc # "retrieveMediaFile" /\ req'[r].pc = "retrieveMediaFile"
FetchReturns(r) == req[r].pc = "retrieveMediaFile" /\ req'[r].pc = "done"

\* C1: language resolution never raises to its caller, whatever the
\* collaborator answers, and both reported languages are non-empty strings.
C1_ResolutionTotal ==
    \A r \in Reqs :
        req[r].pc = "done" =>
            /\ ~req[r].raised
            /\ Truthy(ResolvedFront(r))
            /\ Truthy(ResolvedBack(r))

\* the codes of the override tags of a side that carry a non-empty code
OverrideCodes(tags, prefix) ==
    {SubSeq(tags[i], Len(prefix) + 2, Len(tags[i])) :
        i \in {j \in 1..Len(tags) : /\ StartsWith(tags[j], prefix \o "=")
                                    /\ Len(tags[j]) > Len(prefix) + 1}}

\* the tags of the card's note, as far as the collaborator was able to tell
KnownTags(r) ==
    IF "notesInfo" \in req[r].calls /\ ~req[r].note_info.some
    THEN << >> ELSE req[r].card.tags

PrecedenceSide(r, prefix, key, resolved) ==
    LET codes == OverrideCodes(KnownTags(r), prefix)
        cfg == req[r].deck_config
    IN IF codes # {} THEN resolved \in codes
       ELSE IF cfg.t = "object" /\ key \in cfg.keys THEN resolved = cfg[key]
       ELSE resolved = DefaultLang

\* C2: per side, once the card metadata was fetched: an override tag with a
\* non-empty code decides, with or without a deck name or deck config;
\* otherwise the deck config's field for the side; otherwise en-US.
C2_Precedence ==
    \A r \in Reqs :
        (req[r].pc = "done" /\ req[r].card_info.some) =>
            /\ ~req[r].raised
            /\ PrecedenceSide(r, "av:front", "frontLang", ResolvedFront(r))
            /\ PrecedenceSide(r, "av:back", "backLang", ResolvedBack(r))

\* C3: when the card-metadata lookup fails the request ends at once: no
\* note-tag lookup, no deck-config lookup, the cache as it was, both
\* languages en-US.
C3_CardLookupFailure ==
    [][\A r \in Reqs :
          /\ (req[r].pc = "cardsInfo" /\ req'[r].card_outcome \in Outcomes \ {"data"}) =>
                /\ req'[r].pc = "done"
                /\ req'[r].calls = {"cardsInfo"}
                /\ cache' = cache /\ asked' = asked
                /\ ~req'[r].raised
                /\ OrDefault(req'[r].front_lang) = DefaultLang
                /\ OrDefault(req'[r].back_lang) = DefaultLang
          /\ (req'[r].pc \in {"notesInfo", "retrieveMediaFile"} =>
                req'[r].card_outcome = "data")]_vars

C3_Witness ==
    \E r \in Reqs :
        /\ req[r].pc = "done"
        /\ req[r].card_outcome \in {"raise", "error", "empty"}
        /\ req[r].card.deckName \in DOMAIN cache
        /\ req[r].card.tags # << >>

\* C4 as stated: every fetch stores its outcome under the deck name, so the
\* collaborator is asked for a deck's config at most once.
C4_AskedAtMostOnce ==
    [][\A r \in Reqs :
          /\ Issues(r) => req'[r].card_info.deckName \notin asked
          /\ FetchReturns(r) => req[r].card_info.deckName \in DOMAIN cache']_vars

NeedsConfig(rr) ==
    ~(/\ Truthy(extract_lang_from_tags(rr.note_tags, "av:front"))
      /\ Truthy(extract_lang_from_tags(rr.note_tags, "av:back")))

\* C4 amended: a fetch is made only on a miss and stores the parsed blob
\* only when a blob was retrieved and parses; a missing or unparseable blob
\* stores nothing.  In sequential execution an entry, once stored, is never
\* changed, its deck is never asked for again, and a lookup that finds it
\* returns it without a call, whatever the blob holds by then.
C4_LazyCache ==
    [][/\ \A r \in Reqs :
             LET d == req'[r].card_info.deckName
                 blob == media[ConfigFilename(d)]
             IN /\ Issues(r) => d \notin DOMAIN cache
                /\ FetchReturns(r) =>
                      /\ cache' # cache =>
                            /\ blob.present /\ blob.parses
                            /\ DOMAIN cache' = DOMAIN cache \cup {d}
                            /\ cache'[d] = blob.json
                            /\ req'[r].deck_config = blob.json
                      /\ (~blob.present \/ ~blob.parses) => cache' = cache
                /\ (/\ req[r].pc \in {"cardsInfo", "notesInfo"}
                    /\ req'[r].pc = "done"
                    /\ req'[r].card_info.some /\ Truthy(d)
                    /\ NeedsConfig(req'[r])) =>
                      /\ d \in DOMAIN cache
                      /\ req'[r].deck_config = cache[d]
                      /\ "retrieveMediaFile" \notin req'[r].calls
       /\ \A d \in DOMAIN cache : d \in DOMAIN cache' /\ cache'[d] = cache[d]]_vars

\* a lookup answered from the cache while the blob holds something else
C4_Witness ==
    \E r \in Reqs :
        LET d == req[r].card_info.deckName
        IN /\ req[r].pc = "done"
           /\ req[r].card_info.some /\ Truthy(d)
           /\ d \in DOMAIN cache
           /\ "retrieveMediaFile" \notin req[r].calls
           /\ NeedsConfig(req[r])
           /\ req[r].deck_config = cache[d]
           /\ media[ConfigFilename(d)] # JsonText(cache[d])
           /\ d \in asked

\* C5 as stated: under every interleaving an entry, once written, is never
\* removed and never replaced by a different value.
C5_InsertIfAbsent ==
    [][\A d \in DOMAIN cache : d \in DOMAIN cache' /\ cache'[d] = cache[d]]_vars

\* C5 amended: under every interleaving an entry, once written, is never
\* removed; a fetch starts only on a miss; and an entry's value is replaced
\* only by the reply to a fetch that was already under way for that deck
\* (the last writer wins), with the config that request then returns.
C5_LastWriterWins ==
    [][/\ \A d \in DOMAIN cache :
             /\ d \in DOMAIN cache'
             /\ cache'[d] # cache[d] =>
                   \E r \in Reqs : /\ FetchReturns(r)
                                   /\ req[r].card_info.deckName = d
                                   /\ req'[r].deck_config = cache'[d]
       /\ \A r \in Reqs : Issues(r) => req'[r].card_info.deckName \notin DOMAIN cache]_vars

\* two requests missed on the same deck, were handed different blobs, and
\* the cache holds the one written last
C5_Witness ==
    \E r1, r2 \in Reqs :
        LET d == req[r1].card_info.deckName
        IN /\ r1 # r2
           /\ req[r1].pc = "done" /\ req[r2].pc = "done"
           /\ req[r2].card_info.deckName = d
           /\ "retrieveMediaFile" \in req[r1].calls
           /\ "retrieveMediaFile" \in req[r2].calls
           /\ JsonTruthy(req[r1].deck_config) /\ JsonTruthy(req[r2].deck_config)
           /\ req[r1].deck_config # req[r2].deck_config
           /\ d \in DOMAIN cache /\ cache[d] = req[r2].deck_config

WithoutEmpty(tags, prefix) == SelectSeq(tags, LAMBDA t : t # prefix \o "=")

EmptyCodeSide(r, prefix, key, resolved) ==
    LET code == extract_lang_from_tags(WithoutEmpty(req[r].note_tags, prefix), prefix)
        cfg == req[r].deck_config
    IN IF code # None THEN ~req[r].raised /\ resolved = code
       ELSE ~req[r].raised =>
               resolved = IF cfg.t = "object" THEN OrDefault(dict_get(cfg, key))
                          ELSE DefaultLang

\* C6: an override tag with an empty code counts as absent: each side
\* resolves as it does for the tag list without that side's empty-code tags.
C6_EmptyCodeAbsent ==
    \A r \in Reqs :
        (req[r].pc = "done" /\ req[r].card_info.some /\ Truthy(req[r].card_info.deckName)) =>
            /\ EmptyCodeSide(r, "av:front", "frontLang", ResolvedFront(r))
            /\ EmptyCodeSide(r, "av:back", "backLang", ResolvedBack(r))

JudgeDone(ops) == judge.pc = "done" /\ judge.op \in ops

\* C7: correct exactly when hits = total, partial exactly when
\* max(1, total - 1) <= hits < total, wrong otherwise; for three concepts
\* 3 / 2 / fewer hits give correct / partial / wrong; one concept never
\* gives partial.
C7_VerdictRule ==
    JudgeDone({"list_set_match"}) =>
        LET total == Cardinality(DOMAIN judge.canonical)
            hits == Cardinality(judge.hits)
            partial == hits < total /\ hits >= 1 /\ hits >= total - 1
        IN /\ judge.verdict \in {"correct", "partial", "wrong"}
           /\ judge.verdict = "correct" <=> hits = total
           /\ judge.verdict = "partial" <=> partial
           /\ judge.verdict = "wrong" <=> (hits # total /\ ~partial)
           /\ total = 3 => judge.verdict = (CASE hits = 3 -> "correct"
                                              [] hits = 2 -> "partial"
                                              [] OTHER -> "wrong")
           /\ total = 1 => judge.verdict # "partial"
           /\ total = 0 => judge.verdict = "correct"

C7_Witness ==
    /\ JudgeDone({"list_set_match"})
    /\ Cardinality(DOMAIN judge.canonical) = 3
    /\ Cardinality(judge.hits) = 2
    /\ judge.verdict = "partial"

Occurs(a, txt) ==
    \E i \in 1..Len(txt) : i + Len(a) - 1 <= Len(txt) /\ SubSeq(txt, i, i + Len(a) - 1) = a

\* C8: hits is the set of concept names of which an alias or the name
\* itself occurs in the normalized transcript; missing is the other names.
C8_HitsAndMissing ==
    JudgeDone({"list_set_match", "api_grade"}) =>
        LET txt == normalize_text(judge.transcript)
            names == DOMAIN judge.canonical
        IN /\ judge.hits =
                 {n \in names : \E a \in judge.canonical[n] \cup {n} : Occurs(a, txt)}
           /\ judge.missing = names \ judge.hits
           /\ judge.hits \cap judge.missing = {}
           /\ judge.hits \cup judge.missing = names

\* a concept hit through its canonical name only, next to a missing one
C8_Witness ==
    /\ JudgeDone({"list_set_match"})
    /\ judge.missing # {}
    /\ \E n \in judge.hits :
          \A a \in judge.canonical[n] : ~Occurs(a, normalize_text(judge.transcript))

\* C9: the ease is 4 for correct above the threshold, 3 for correct
\* otherwise, 2 for partial, 1 for anything else; always within 1..4.
C9_EaseMapping ==
    JudgeDone({"ease_from_verdict"}) =>
        /\ judge.ease \in {1, 2, 3, 4}
        /\ (judge.verdict = "correct" /\ judge.confidence > EaseThreshold) => judge.ease = 4
        /\ (judge.verdict = "correct" /\ judge.confidence <= EaseThreshold) => judge.ease = 3
        /\ judge.verdict = "partial" => judge.ease = 2
        /\ judge.verdict \notin {"correct", "partial"} => judge.ease = 1

C9_Witness ==
    /\ JudgeDone({"ease_from_verdict"})
    /\ judge.verdict = "correct" /\ judge.confidence = EaseThreshold
    /\ judge.ease = 3

\* the concept of /grade's table that an abbreviation stands for
ConceptOf(alias) == CHOOSE n \in DOMAIN ApiGradeCanonical : alias \in ApiGradeCanonical[n]

\* C10: /grade on "embb and urllc only" hits the embb and urllc concepts,
\* misses the mmtc concept, and answers partial with ease 2.
C10_EndToEnd ==
    (JudgeDone({"api_grade"}) /\ judge.transcript = "embb and urllc only") =>
        /\ judge.hits = {ConceptOf("embb"), ConceptOf("urllc")}
        /\ judge.missing = {ConceptOf("mmtc")}
        /\ Cardinality(judge.hits) = 2
        /\ judge.verdict = "partial"
        /\ judge.ease = 2

C10_Witness ==
    /\ JudgeDone({"api_grade"})
    /\ judge.transcript = "embb and urllc only"
    /\ judge.verdict = "partial"

\* C11: a /grade request answers in the step it starts in, with the judge's
\* result for its transcript, without a call to any collaborator and without
\* touching the deck-config cache or any other request, whatever the
\* generative backend is doing for the explanation and follow-up requests
\* in flight.
C11_GradeIndependent ==
    [][\A h \in HReqs :
          (http[h].pc = "idle" /\ http'[h].op = "grade") =>
             /\ http'[h].pc = "done"
             /\ http'[h].status = 200
             /\ http'[h].body = api_grade(http'[h].inp.transcript)
             /\ http'[h].calls = << >>
             /\ cache' = cache
             /\ \A g \in HReqs \ {h} : http'[g] = http[g]]_vars

\* a grade was answered, with the cache holding an entry, while a follow-up
\* request waits for the generative backend
C11_Witness ==
    \E h, g \in HReqs :
       /\ http[h].op = "grade" /\ http[h].pc = "done"
       /\ http[h].body.verdict = "partial"
       /\ http[g].op = "ask" /\ http[g].pc = "answer_followup"
       /\ cache # << >>

\* the request's input fails the validation the spec names
Invalid(h) ==
    \/ /\ http[h].op \in {"answer", "submit"}
       /\ http[h].inp.ease \notin {1, 2, 3, 4}
    \/ /\ http[h].op \in {"explain", "ask"}
       /\ \/ http[h].inp.question_text \in {None, ""}
          \/ http[h].inp.reference_text \in {None, ""}

\* C12: an answer or submit-grade request with an ease outside 1..4, and an
\* explanation or follow-up request with a missing or empty question or
\* reference text, ends with status 400 and has made no collaborator call.
C12_ValidationFirst ==
    \A h \in HReqs :
       Invalid(h) => /\ http[h].pc = "done"
                     /\ http[h].status = 400
                     /\ http[h].calls = << >>

\* a submit-grade with ease 0 and a follow-up with an empty reference text
\* were both rejected
C12_Witness ==
    \E h, g \in HReqs :
       /\ http[h].op = "submit" /\ http[h].inp.ease = 0 /\ http[h].status = 400
       /\ http[g].op = "ask" /\ http[g].inp.question_text = "q"
       /\ http[g].inp.reference_text = "" /\ http[g].status = 400

\* C13: an explanation or follow-up request whose call of the generative
\* backend raised or timed out ends with status 502.
C13_BackendFailure ==
    \A h \in HReqs :
       (http[h].op \in {"explain", "ask"} /\ http[h].llm \in {"raise", "timeout"})
          => http[h].pc = "done" /\ http[h].status = 502

\* C19: a delete-note request issues one collaborator request, the suspend
\* of exactly its card id; it never deletes a note or closes the reviewer.
C19_SuspendOnly ==
    \A h \in HReqs :
       http[h].op = "delete" =>
          /\ http[h].calls = <<suspend_cards(<<http[h].inp.cardId>>)>>
          /\ \A i \in 1..Len(http[h].calls) :
                http[h].calls[i].action \notin {"deleteNotes", "guiDeckOverview"}

\* two delete-note requests for different cards were answered, one of them
\* with success
C19_Witness ==
    \E h, g \in HReqs :
       /\ http[h].op = "delete" /\ http[h].pc = "done" /\ http[h].status = 200
       /\ http[g].op = "delete" /\ http[g].pc = "done"
       /\ http[g].inp.cardId # http[h].inp.cardId

ExtractDone == call.op = "html_to_text_readme_only" /\ call.pc = "done"
TheDoc == call.markup.doc

\* the region root and its descendants
Region(doc, root) == {i \in 1..Len(doc) : i = root \/ root \in find_parents(doc, i)}
\* nesting depth relative to the region root: 0 for the root itself
NestingDepth(doc, root, i) == Cardinality(find_parents(doc, i) \ find_parents(doc, root))

\* the tag the rule of C14 gives for the carriers S: the attribute of the
\* first element, in document order, among those of maximum depth
TagOfDeepest(doc, root, S, lang) ==
    \E i \in S :
       /\ \A j \in S : NestingDepth(doc, root, j) <= NestingDepth(doc, root, i)
       /\ \A j \in S : NestingDepth(doc, root, j) = NestingDepth(doc, root, i) => i <= j
       /\ lang = doc[i].lang

\* C14 as stated: the elements that carry a language attribute are those
\* that have one, whatever its value; without any the tag is null.
C14_InnermostLanguage ==
    (ExtractDone /\ call.region # 0) =>
        LET S == {i \in Region(TheDoc, call.region) : TheDoc[i].lang # None}
        IN IF S = {} THEN call.lang = None
           ELSE TagOfDeepest(TheDoc, call.region, S, call.lang)

\* C14 amended: among the region root and its descendants with a non-empty
\* language attribute the tag is that of the deepest one, the first in
\* document order on a tie; without any it is the root's own attribute
\* value when the root has the attribute (then the empty string), else null.
C14_InnermostNonEmpty ==
    (ExtractDone /\ call.region # 0) =>
        LET S == {i \in Region(TheDoc, call.region) :
                     TheDoc[i].lang # None /\ TheDoc[i].lang # ""}
        IN IF S = {} THEN call.lang = TheDoc[call.region].lang
           ELSE TagOfDeepest(TheDoc, call.region, S, call.lang)

\* two elements with different tags share the maximum depth, below a root
\* without a tag, and the first one gave the tag
C14_Witness ==
    /\ ExtractDone /\ call.region # 0
    /\ TheDoc[call.region].lang = None
    /\ \E i, j \in Region(TheDoc, call.region) :
          /\ i < j
          /\ NestingDepth(TheDoc, call.region, i) = 1
          /\ NestingDepth(TheDoc, call.region, j) = 1
          /\ TheDoc[i].lang = "es-ES" /\ TheDoc[j].lang = "en-US"
          /\ call.lang = "es-ES"

\* an ancestor that is an embedded-front container
InContainer(doc, i) ==
    \E a \in find_parents(doc, i) :
       doc[a].name = "div" /\ "from-front" \in {doc[a].class[k] : k \in 1..Len(doc[a].class)}
Marked(elem) == "README" \in {elem.class[k] : k \in 1..Len(elem.class)}

\* the region is the first of the candidates, in document order
FirstOf(candidates, region) ==
    candidates # {} => (region \in candidates /\ \A i \in candidates : region <= i)

\* C15 as stated: the candidates are all elements with the marker among
\* their class tokens; those inside an embedded-front container are skipped
\* exactly when excludeEmbeddedFront is true.
C15_FirstMarked ==
    (ExtractDone /\ call.markup.s = "html") =>
        FirstOf({i \in 1..Len(TheDoc) :
                    /\ Marked(TheDoc[i])
                    /\ ~(call.exclude_from_front /\ InContainer(TheDoc, i))},
                call.region)

\* C15 amended: the candidates are the div elements with the marker among
\* their class tokens; with excludeEmbeddedFront true those with an
\* embedded-front div among their ancestors are skipped, with false none
\* is; the first candidate in document order is the region, and without a
\* candidate no region is selected.
C15_FirstMarkedDiv ==
    (ExtractDone /\ call.markup.s = "html") =>
        LET candidates ==
                {i \in 1..Len(TheDoc) :
                    /\ TheDoc[i].name = "div" /\ Marked(TheDoc[i])
                    /\ ~(call.exclude_from_front /\ InContainer(TheDoc, i))}
        IN /\ FirstOf(candidates, call.region)
           /\ candidates = {} => call.region = 0

\* a marked div with several class tokens inside an embedded-front
\* container was skipped for a later marked div
C15_Witness ==
    /\ ExtractDone /\ call.exclude_from_front
    /\ \E i \in 1..Len(TheDoc) :
          /\ i < call.region
          /\ TheDoc[i].name = "div" /\ Len(TheDoc[i].class) = 2 /\ Marked(TheDoc[i])
          /\ InContainer(TheDoc, i)

\* C16: a call with null or empty markup returns ("", null); a call that
\* selects no region (no div is marked, or excludeEmbeddedFront is true and
\* every marked div lies inside an embedded-front container) returns the
\* text of the full document and null.
C16_Fallback ==
    ExtractDone =>
        /\ call.markup.s \in {"none", "empty"} =>
              call.region = 0 /\ call.text = "" /\ call.lang = None
        /\ (call.markup.s = "html" /\ call.region = 0) =>
              /\ call.text = get_text(TheDoc, 0)
              /\ call.lang = None
        /\ (call.markup.s = "html" /\ call.region # 0) =>
              \E i \in 1..Len(TheDoc) :
                 /\ TheDoc[i].name = "div" /\ Marked(TheDoc[i])
                 /\ ~(call.exclude_from_front /\ InContainer(TheDoc, i))

\* the only marked div, tagged es-ES, lies inside an embedded-front
\* container: the text of the whole document is returned, without a tag
C16_Witness ==
    /\ ExtractDone /\ call.exclude_from_front
    /\ call.region = 0 /\ call.lang = None /\ call.text = "b c"
    /\ \E i \in 1..Len(TheDoc) :
          Marked(TheDoc[i]) /\ TheDoc[i].lang = "es-ES" /\ InContainer(TheDoc, i)

SanitizeDone == call.op = "sanitize_deck_name_for_filename" /\ call.pc = "done"

\* C17 as stated: each character outside [A-Za-z0-9._-] becomes one "_" in
\* its place, so the segment is as long as the deck name.
C17_CharForChar ==
    SanitizeDone =>
        /\ Len(call.out) = Len(call.s)
        /\ \A i \in 1..Len(call.s) :
              CharAt(call.out, i) = IF FilenameChar(CharAt(call.s, i))
                                    THEN CharAt(call.s, i) ELSE "_"
        /\ call.tool_out = call.out
        /\ call.file = "_ankiVoice.deck." \o call.out \o ".json"

\* what the character at position i of the trimmed name t contributes: itself
\* when it is of the class, "_" when it opens a run of other characters,
\* nothing inside such a run
RunPiece(t, i) ==
    IF FilenameChar(CharAt(t, i)) THEN CharAt(t, i)
    ELSE IF i > 1 /\ ~FilenameChar(CharAt(t, i - 1)) THEN ""
    ELSE "_"
RECURSIVE RunPieces(_, _)
RunPieces(t, n) == IF n = 0 THEN "" ELSE RunPieces(t, n - 1) \o RunPiece(t, n)

\* C17 amended: the name is trimmed of leading and trailing whitespace, then
\* every maximal run of characters outside [A-Za-z0-9._-] becomes one "_"
\* and every other character stays in order; the segment contains only
\* characters of the class and is at most as long as the deck name; server
\* and setup tool agree; the blob name is _ankiVoice.deck.<segment>.json.
C17_RunForRun ==
    SanitizeDone =>
        /\ call.out = RunPieces(Strip(call.s), Len(Strip(call.s)))
        /\ \A i \in 1..Len(call.out) : FilenameChar(CharAt(call.out, i))
        /\ Len(call.out) <= Len(call.s)
        /\ call.tool_out = call.out
        /\ call.file = "_ankiVoice.deck." \o call.out \o ".json"
        /\ call.s = "Spanish 1/Greetings" => call.out = "Spanish_1_Greetings"

\* a name that ends with a run of two characters outside the class, which
\* became one "_"
C17_Witness ==
    /\ SanitizeDone
    /\ call.s = "Sp /"
    /\ call.out = "Sp_"

\* C18: normalizing a normalized string changes nothing.
C18_Idempotent ==
    (call.op = "normalize_text" /\ call.pc = "again") => call.twice = call.out

\* a string whose unescaped form is itself a character reference
C18_Witness ==
    /\ call.op = "normalize_text" /\ call.pc = "again"
    /\ call.s = "&amp;lt;"
    /\ call.out = "lt"

\* C20: with --dry-run, under every combination of the other flags, the
\* tool sends only version, deckNames and findNotes: no storeMediaFile, no
\* addTags, no removeTags.
C20_DryRunReadsOnly ==
    tool.args.dry_run =>
        \A i \in 1..Len(tool.calls) :
           /\ tool.calls[i].action \in {"version", "deckNames", "findNotes"}
           /\ tool.calls[i].action \notin {"storeMediaFile", "addTags", "removeTags"}

\* a dry run with languages and --tag-notes, on a deck with notes, reached
\* "Done." after the three reads
C20_Witness ==
    /\ tool.args.dry_run /\ tool.args.tag_notes /\ ~tool.args.remove_note_tags
    /\ tool.world.notes # << >>
    /\ tool.exit = "Done"
    /\ Len(tool.calls) = 3
    /\ tool.calls[3].action = "findNotes"

\* C21: a manual grade with a valid ease requests show-answer and only then
\* answer-card; when show-answer reports an error answer-card is never
\* requested and the request ends with 409 "Reviewer not ready"; when
\* answer-card reports an error the request ends with 502; otherwise the
\* collaborator's answer is returned with 200, a reply whose result and error
\* are both null included.
SubmitCalls(h) == <<show_answer, answer_card(http[h].inp.ease)>>
C21_ShowThenAnswer ==
    \A h \in HReqs :
        (http[h].op = "submit" /\ ValidEase(http[h].inp.ease)) =>
            LET x == http[h]
                n == Len(x.replies)
            IN /\ x.calls = SubSeq(SubmitCalls(h), 1, Len(x.calls))
               /\ x.pc = "done" => Len(x.calls) = n /\ n \in {1, 2}
               /\ x.pc # "done" => Len(x.calls) = n + 1
               /\ (n >= 1 /\ x.replies[1].error # None) =>
                      /\ x.pc = "done" /\ x.calls = <<show_answer>>
                      /\ x.status = 409
                      /\ x.body = [detail |-> "Reviewer not ready"]
               /\ (n = 2 /\ x.replies[2].error # None) =>
                      /\ x.pc = "done" /\ x.status = 502
                      /\ x.body = [detail |-> "AnkiConnect error"]
               /\ (n = 2 /\ x.replies[2].error = None) =>
                      /\ x.pc = "done" /\ x.status = 200
                      /\ x.body = x.replies[2]
C21_Witness ==
    \E h \in HReqs :
        /\ http[h].op = "submit" /\ http[h].pc = "done" /\ http[h].status = 200
        /\ http[h].calls = SubmitCalls(h)
        /\ http[h].body = [result |-> None, error |-> None]
        /\ \E g \in HReqs :
              /\ http[g].op = "submit" /\ http[g].status = 409
              /\ http[g].replies = <<AnkiResult("raise")>>

\* C22: the remove request names exactly the two literal tokens av:front=
\* and av:back= for all notes of the deck, whatever codes the notes carry;
\* when Anki has applied it every other tag, av:front=<code> and
\* av:back=<code> with a non-empty code included, is still on its note.
Removing == tool.pc = "removeTags" /\ tool'.pc = "exit" /\ tool'.exit = "Done"
CurrentDone == call.op = "current" /\ call.pc = "done"
ExpectedLanguage(lang_from_div, hint) ==
    IF lang_from_div \notin {None, ""} THEN lang_from_div
    ELSE IF call.data.cardId # 0 /\ hint \notin {None, ""} THEN hint
    ELSE "en-US"
C23_SideLanguage ==
    (CurrentDone /\ call.data.status = "ok") =>
        LET front == html_to_text_readme_only(call.data.front_html, FALSE).lang
            back == html_to_text_readme_only(call.data.back_html, TRUE).lang
        IN /\ call.response.front_language =
                  ExpectedLanguage(front, call.lang_hints.front_language)
           /\ call.response.back_language =
                  ExpectedLanguage(back, call.lang_hints.back_language)
           /\ call.data.cardId = 0 => ~call.response.consulted

\* the same, for the calls in which get_language_hints returns
CurrentLanguageUnlessRaised ==
    (CurrentDone /\ call.data.status = "ok" /\ ~call.lang_hints.raised) =>
        LET front == html_to_text_readme_only(call.data.front_html, FALSE).lang
            back == html_to_text_readme_only(call.data.back_html, TRUE).lang
        IN /\ call.response.front_language =
                  ExpectedLanguage(front, call.lang_hints.front_language)
           /\ call.response.back_language =
                  ExpectedLanguage(back, call.lang_hints.back_language)
           /\ call.data.cardId = 0 => ~call.response.consulted

\* the add-on holds no server and no thread, or one server with its thread
OneHeld(s) ==
    /\ s.srv = 0 <=> s.srv_thread = 0
    /\ s.srv # 0 =>
          /\ s.srv \in 1..Len(s.servers) /\ s.srv_thread = s.srv
          /\ s.servers[s.srv].bound /\ s.servers[s.srv].serving
Opened == server'.event = "profile_did_open" /\ server' # server
Closed == server'.event = "profile_will_close" /\ server' # server
Same(s, t) == s.srv = t.srv /\ s.srv_thread = t.srv_thread /\ s.servers = t.servers
\* the start bound the port and started exactly one serving thread
Started(port) ==
    /\ server'.srv = Len(server.servers) + 1
    /\ server'.servers = Append(server.servers, ThreadingHTTPServer(port))
    /\ server'.raised = None

\* C24: under every sequence of profile events the add-on holds at most one
\* server; a start while one is held does nothing; a start with none held
\* binds 8770, or 8771 when 8770 is busy, and starts exactly one serving
\* thread; a stop always leaves no server and no thread held, also when
\* shutting down raises.
C24_OneServer ==
    [][/\ OneHeld(server')
       /\ (Opened /\ server.srv # 0) => Same(server, server')
       /\ (Opened /\ server.srv = 0) =>
             Started(IF Busy(server, 8770) THEN 8771 ELSE 8770)
       /\ Closed => server'.srv = 0 /\ server'.srv_thread = 0]_vars

\* C24, amended: as above, except that a start with none held while both
\* ports are busy raises OSError and leaves no server and no thread held.
C24_OneServerUnlessBothBusy ==
    [][/\ OneHeld(server')
       /\ (Opened /\ server.srv # 0) => Same(server, server')
       /\ (Opened /\ server.srv = 0) =>
             IF Busy(server, 8770) /\ Busy(server, 8771)
             THEN /\ Same(server, server')
                  /\ server'.raised = "OSError"
             ELSE Started(IF Busy(server, 8770) THEN 8771 ELSE 8770)
       /\ Closed => server'.srv = 0 /\ server'.srv_thread = 0]_vars

\* a start raised with none held: 8770 is held by another program and 8771
\* by a server of this process whose shutdown raised and whose thread
\* still serves
C24_Witness ==
    /\ server.event = "profile_did_open" /\ server.raised = "OSError"
    /\ server.srv = 0 /\ server.srv_thread = 0
    /\ server.other = {8770}
    /\ \E i \in 1..Len(server.servers) :
          LET x == server.servers[i] IN x.port = 8771 /\ x.bound /\ x.serving

\* C25: the reviewer's state is read only on the main thread; under every
\* interleaving a handler of /current replies only after its own task has
\* finished and with that task's result; when the task raises the waiting
\* handler is released all the same and answers 500 {"error": "internal"}.
C25_OwnTaskResult ==
    /\ bridge.readers \subseteq {"main"}
    /\ \A t \in Threads :
          LET x == bridge.thread[t]
          IN /\ (x.pc = "replied" /\ x.path = "/current") =>
                   /\ x.task.finished
                   /\ IF x.task.err # None
                      THEN x.status = 500 /\ x.payload = [error |-> "internal"]
                      ELSE x.status = 200 /\ x.payload = x.task.res
             /\ (x.pc = "waiting" /\ x.task.finished) => x.done
             /\ (x.pc = "waiting" /\ ~x.task.finished) =>
                   \E i \in 1..Len(bridge.queue) : bridge.queue[i] = t

\* two handlers of /current have replied, one with the card its task read
\* before the reviewer moved on, the other with the internal error of a
\* task that raised
C25_Witness ==
    /\ bridge.thread["t1"].path = "/current" /\ bridge.thread["t1"].pc = "replied"
    /\ bridge.thread["t1"].payload = [status |-> "ok", cardId |-> 7]
    /\ bridge.reviewer = 8
    /\ bridge.thread["t2"].path = "/current" /\ bridge.thread["t2"].pc = "replied"
    /\ bridge.thread["t2"].task.err = "Exception"
    /\ bridge.thread["t2"].status = 500

\* the note's tags carry no override for either side
NoOverride(tags) ==
    \A i \in 1..Len(tags) :
        ~StartsWith(tags[i], "av:front=") /\ ~StartsWith(tags[i], "av:back=")
Storing == tool.pc = "storeMediaFile" /\ tool'.pc = "findNotes"
ReadsBack(r) ==
    /\ req[r].pc = "retrieveMediaFile" /\ req'[r].pc = "done"
    /\ req'[r].media_outcome = "data"
    /\ req[r].card_info.deckName \in DOMAIN tool.world.stored
    /\ NoOverride(req[r].note_tags)

\* C26: the tool stores the languages under the blob name the server
\* derives for the deck, so once the tool (without --dry-run) has written
\* (f, b) for deck D, a lookup that starts from a cache without an entry for
\* D and is answered with the file resolves a card of D whose note has no
\* override tags to front = f and back = b.
C26_RoundTrip ==
    [][/\ Storing =>
             /\ ~tool.args.dry_run
             /\ tool.calls[Len(tool.calls)].text[1] = ConfigFilename(tool.args.deck)
             /\ media'[ConfigFilename(tool.args.deck)].present
       /\ \A r \in SeqReqs :
             ReadsBack(r) =>
                LET written == tool.world.stored[req[r].card_info.deckName]
                IN /\ ~req'[r].raised
                   /\ req'[r].front_lang = written.front_lang
                   /\ req'[r].back_lang = written.back_lang]_vars

\* a card of deck "A b" without override tags resolved to the languages the
\* tool had written for "A b", read from the file and now cached
C26_Witness ==
    /\ "A b" \in DOMAIN tool.world.stored
    /\ ~tool.args.dry_run
    /\ req["r1"].pc = "done" /\ req["r1"].media_outcome = "data"
    /\ req["r1"].card.deckName = "A b" /\ req["r1"].note_tags = << >>
    /\ req["r1"].front_lang = "es-ES" /\ req["r1"].back_lang = "en-US"
    /\ "A b" \in DOMAIN cache

====
